---- MODULE Spec2Model ----
(***************************************************************************)
(* A model of src/src/main/python/optimize_portfolio.py: the mean-variance *)
(* solvers, the quantum solvers with their classical fallback, the         *)
(* portfolio metrics, the efficient-frontier sampler, the backtest harness *)
(* and the request pipeline of main.                                       *)
(*                                                                         *)
(* Numbers.  A Python float is modelled by an exact rational <<p, q>>,     *)
(* q > 0, in lowest terms; <<0, 0>> is NaN.  A square root is kept exact   *)
(* as a signed surd [sgn, sq] (the value sgn * sqrt(sq)) and only turned   *)
(* into a rational where the code rounds it.  Floating-point drift is       *)
(* therefore outside the model; everything else is computed the way the    *)
(* code computes it.                                                       *)
(***************************************************************************)
EXTENDS Integers, Sequences, FiniteSets, TLC

----------------------------------------------------------------------------
(* Rational arithmetic                                                     *)

Abs(x) == IF x < 0 THEN -x ELSE x

RECURSIVE GCD(_, _)
GCD(a, b) == IF b = 0 THEN a ELSE GCD(b, a % b)

NaN == <<0, 0>>

IsNaN(x) == x = NaN

\* -float('inf'); it is only ever compared.
NegInf == <<-1, 0>>

\* The rational p/q in lowest terms, the sign carried by the numerator.
Rat(p, q) ==
    IF q = 0 THEN NaN
    ELSE LET g == GCD(Abs(p), Abs(q))
             s == IF q < 0 THEN -1 ELSE 1
         IN  <<s * (p \div g), s * (q \div g)>>

RInt(k) == <<k, 1>>

RZero == RInt(0)

ROne == RInt(1)

\* x over the common denominator of x and y, as a numerator.
Over(x, y) == x[1] * (y[2] \div GCD(x[2], y[2]))

RAdd(x, y) ==
    IF IsNaN(x) \/ IsNaN(y) THEN NaN
    ELSE Rat(Over(x, y) + Over(y, x), x[2] * (y[2] \div GCD(x[2], y[2])))

RSub(x, y) == IF IsNaN(y) THEN NaN ELSE RAdd(x, <<-y[1], y[2]>>)

\* The factors are reduced crosswise first, which keeps the products small.
RMul(x, y) ==
    IF IsNaN(x) \/ IsNaN(y) THEN NaN
    ELSE LET g1 == GCD(Abs(x[1]), y[2])
             g2 == GCD(Abs(y[1]), x[2])
         IN  Rat((x[1] \div g1) * (y[1] \div g2), (x[2] \div g2) * (y[2] \div g1))

\* Float division of numpy arrays: x / 0 is not an error there; 0/0 is NaN
\* and the model keeps no infinities, so any division by zero is NaN.
RDiv(x, y) ==
    IF IsNaN(x) \/ IsNaN(y) \/ y[1] = 0 THEN NaN
    ELSE RMul(x, Rat(y[2], y[1]))

\* Comparisons: every comparison with NaN is false, as in IEEE 754.
\* -inf, <<-1, 0>>, is below every number.
RLt(x, y) ==
    /\ ~IsNaN(x) /\ ~IsNaN(y)
    /\ IF x = NegInf THEN y # NegInf
       ELSE y # NegInf /\ Over(x, y) < Over(y, x)

RLe(x, y) ==
    /\ ~IsNaN(x) /\ ~IsNaN(y)
    /\ IF x = NegInf THEN TRUE
       ELSE y # NegInf /\ Over(x, y) <= Over(y, x)

RGt(x, y) == RLt(y, x)

RGe(x, y) == RLe(y, x)

----------------------------------------------------------------------------
(* Vectors (sequences of rationals) and matrices (sequences of rows)       *)

\* The sequence with the values of v: np.array, every element computed.
Array(v) == v \o <<>>

RECURSIVE VSum(_)
VSum(v) == IF v = <<>> THEN RZero ELSE RAdd(Head(v), VSum(Tail(v)))

\* np.dot of two vectors
Dot(u, v) == VSum(Array([i \in 1..Len(u) |-> RMul(u[i], v[i])]))

\* np.dot of a matrix and a vector
MatVec(M, v) == Array([i \in 1..Len(M) |-> Dot(M[i], v)])

VDivide(v, c) == Array([i \in 1..Len(v) |-> RDiv(v[i], c)])

\* np.ones(n) / n
EqualWeights(n) == VDivide(Array([i \in 1..n |-> ROne]), RInt(n))

\* np.dot(w, np.dot(C, w))
QuadForm(w, C) == Dot(w, MatVec(C, w))

\* The matrix M without row i and column j.
Minor(M, i, j) ==
    LET n == Len(M)
        skip(k, d) == IF k < d THEN k ELSE k + 1
    IN  Array([r \in 1..(n - 1) |->
                  Array([c \in 1..(n - 1) |-> M[skip(r, i)][skip(c, j)]])])

RECURSIVE Det(_)
Det(M) ==
    IF Len(M) = 0 THEN ROne
    ELSE LET term(j) == RMul(RMul(RInt(IF j % 2 = 1 THEN 1 ELSE -1), M[1][j]),
                             Det(Minor(M, 1, j)))
         IN  VSum(Array([j \in 1..Len(M) |-> term(j)]))

\* The adjugate of M over d.
AdjugateOver(M, d) ==
    Array([i \in 1..Len(M) |-> Array([j \in 1..Len(M) |->
        RDiv(RMul(RInt(IF (i + j) % 2 = 0 THEN 1 ELSE -1), Det(Minor(M, j, i))), d)])])

\* Seeded fault: the covariance matrix taken for its inverse.
WithoutInverse(M) == M

\* np.linalg.inv of a non-singular matrix: the adjugate over the determinant.
Inv(M) == AdjugateOver(M, Det(M))

----------------------------------------------------------------------------
(* Bounds of the model                                                     *)

\* Largest number of assets in a request.
MaxAssets == 2

\* Weight bounds and optimizer results lie on the grid 0, 1/Grid, ..., 1.
Grid == 4

\* The sampler is run on up to this many portfolios (the code's default is 100).
NumPortfolios == 3

\* The backtest is run on up to this many periods.
MaxPeriods == 3

----------------------------------------------------------------------------
(* Program constants                                                       *)

\* bits_per_asset = 4
bits_per_asset == 4

\* max_weight_value = 2**bits_per_asset - 1
max_weight_value == 2 ^ bits_per_asset - 1

\* risk_free_rate = 0.02
risk_free_rate == Rat(2, 100)

----------------------------------------------------------------------------
(* Classical solver                                                        *)
(*                                                                         *)
(* A solver returns [weights, path, by, raised]: the weight vector, the    *)
(* return path taken, the solver whose code computed the weights, and      *)
(* whether an exception left the solver instead of a return value.         *)

\* constraints=None
NoConstraints == [present |-> FALSE, min_weights |-> <<>>, max_weights |-> <<>>]

\* weights / weights.sum()
Normalize(w) == VDivide(w, VSum(w))

\* Seeded fault: the weights divided by their sum whatever the sum is.
NormalizeAlways(n, w) == Normalize(w)

\* weights / weights.sum() if weights.sum() > 0 else np.ones(n) / n
NormalizeOrEqual(n, w) == IF RGt(VSum(w), RZero) THEN Normalize(w) ELSE EqualWeights(n)

\* np.clip(x, lo, hi)
Clip(x, lo, hi) ==
    Array([i \in 1..Len(x) |->
              LET raised == IF RGt(lo[i], x[i]) THEN lo[i] ELSE x[i]
              IN  IF RLt(hi[i], raised) THEN hi[i] ELSE raised])

\* Seeded fault: the long-only clamp left out.
KeepNegativeWeights(w) == w

\* np.maximum(weights, 0)
ClampNonNegative(w) ==
    Array([i \in 1..Len(w) |-> IF RGt(RZero, w[i]) THEN RZero ELSE w[i]])

\* The initial guess handed to scipy's minimize: the midpoint of each
\* asset's bounds, divided by the sum of the midpoints.
InitialWeights(n, constraints) ==
    Normalize(Array([i \in 1..n |->
                  RDiv(RAdd(constraints.min_weights[i], constraints.max_weights[i]),
                       RInt(2))]))

\* The except branch of optimize_with_modern_portfolio_theory.
MPTFallback(n) ==
    [weights |-> EqualWeights(n), path |-> "equal_weights", by |-> "MPT", raised |-> FALSE]

\* Seeded fault: the risk aversion of a negative risk factor is negative.
RiskAversionSigned(risk_factor) ==
    IF risk_factor = RZero THEN ROne ELSE RDiv(RInt(2), risk_factor)

\* risk_aversion = 2.0 / risk_factor if risk_factor > 0 else 1.0
RiskAversion(risk_factor) ==
    IF RGt(risk_factor, RZero) THEN RDiv(RInt(2), risk_factor) ELSE ROne

\* The unconstrained branch (constraints is None), lines 153-178.
MPTAnalytic(n, returns, covariance_matrix, risk_factor) ==
    IF Det(covariance_matrix) = RZero
    THEN MPTFallback(n)     \* np.linalg.inv raises LinAlgError, caught at line 231
    ELSE [weights |->
              Normalize(ClampNonNegative(NormalizeOrEqual(n,
                  VDivide(MatVec(Inv(covariance_matrix), returns),
                          RiskAversion(risk_factor))))),
          path |-> "analytic", by |-> "MPT", raised |-> FALSE]

\* Seeded fault: the constrained branch outside the try block, an exception
\* of the branch reaching the caller.
MPTConstrainedUncaught(n, constraints, result) ==
    IF result.raises
       \/ \E i \in 1..n : constraints.min_weights[i] = <<>>
                          \/ constraints.max_weights[i] = <<>>
    THEN [weights |-> <<>>, path |-> "raised", by |-> "MPT", raised |-> TRUE]
    ELSE IF result.success
    THEN [weights |-> Normalize(Clip(result.x, constraints.min_weights,
                                     constraints.max_weights)),
          path |-> "slsqp", by |-> "MPT", raised |-> FALSE]
    ELSE [weights |-> InitialWeights(n, constraints), path |-> "initial_guess",
          by |-> "MPT", raised |-> FALSE]

\* The constrained branch.  result is what scipy.optimize.minimize does:
\* it raises, or returns with result.success and result.x.  A bound that is
\* None, <<>> here, makes (min_weights[i] + max_weights[i]) / 2 raise
\* TypeError ahead of the minimize call.
MPTConstrained(n, constraints, result) ==
    LET min_weights == constraints.min_weights
        max_weights == constraints.max_weights
        initial_weights == InitialWeights(n, constraints)
    IN  IF result.raises
           \/ \E i \in 1..n : min_weights[i] = <<>> \/ max_weights[i] = <<>>
        THEN MPTFallback(n)
        ELSE IF result.success
        THEN [weights |-> Normalize(Clip(result.x, min_weights, max_weights)),
              path |-> "slsqp", by |-> "MPT", raised |-> FALSE]
        ELSE [weights |-> initial_weights, path |-> "initial_guess", by |-> "MPT",
              raised |-> FALSE]

optimize_with_modern_portfolio_theory(n, returns, covariance_matrix, risk_factor, constraints, result) ==
    IF ~constraints.present
    THEN MPTAnalytic(n, returns, covariance_matrix, risk_factor)
    ELSE MPTConstrained(n, constraints, result)

\* A minimize outcome for the calls that never reach minimize.
NoResult == [raises |-> FALSE, success |-> FALSE, x |-> <<>>]

----------------------------------------------------------------------------
(* Quantum solvers                                                         *)

\* The binary variables x_{i}_{bit} of the QAOA program, i from 0 in the
\* code and from 1 here.
QaoaVars(n) == (1..n) \X (0..(bits_per_asset - 1))

\* The binary variables x_{i} of the VQE program.
VqeVars(n) == {<<i>> : i \in 1..n}

\* Seeded fault: a variable counts as set whenever the result holds it.
BitPresent(variables_dict, v) == v \in DOMAIN variables_dict

\* result.variables_dict[v] > 0.5, a variable missing from the dict not set
BitSet(variables_dict, v) == v \in DOMAIN variables_dict /\ 2 * variables_dict[v] > 1

\* weights[i] += 2**bit / max_weight_value for every set bit of asset i
RECURSIVE SumBits(_, _, _)
SumBits(variables_dict, i, bit) ==
    IF bit = bits_per_asset THEN RZero
    ELSE RAdd(IF BitSet(variables_dict, <<i, bit>>)
              THEN Rat(2 ^ bit, max_weight_value) ELSE RZero,
              SumBits(variables_dict, i, bit + 1))

\* bit_value = 2**bit / max_weight_value of a QAOA variable; a VQE variable
\* x_{i} stands for the whole asset.
BitValue(v) == IF Len(v) = 2 THEN Rat(2 ^ v[2], max_weight_value) ELSE ROne

\* The program handed to qp.minimize: linear_coeffs[v] = -returns[i] *
\* bit_value, and for every ordered pair of variables
\* quadratic_coeffs[(u, v)] = risk_penalty * covariance_matrix[i, j] *
\* bit_value_i * bit_value_j with risk_penalty = risk_factor * 2.0.
QuadraticProgram(meth, n, returns, covariance_matrix, risk_factor) ==
    LET V == IF meth = "QAOA" THEN QaoaVars(n) ELSE VqeVars(n)
        risk_penalty == RMul(risk_factor, RInt(2))
    IN  [linear |-> [v \in V |-> RMul(RSub(RZero, returns[v[1]]), BitValue(v))],
         quadratic |-> [p \in V \X V |->
             RMul(RMul(RMul(risk_penalty, covariance_matrix[p[1][1]][p[2][1]]),
                       BitValue(p[1])),
                  BitValue(p[2]))]]

QaoaDecode(n, variables_dict) ==
    NormalizeOrEqual(n, Array([i \in 1..n |-> SumBits(variables_dict, i, 0)]))

VqeDecode(n, variables_dict) ==
    LET selected == {i \in 1..n : BitSet(variables_dict, <<i>>)}
    IN  IF selected # {}
        THEN [i \in 1..n |-> IF i \in selected THEN Rat(1, Cardinality(selected))
                                               ELSE RZero]
        ELSE EqualWeights(n)

\* Seeded fault: QAOA decodes whatever the backend left, toolchain or not.
qaoa_without_fallback(available, n, returns, covariance_matrix, risk_factor, run) ==
    [weights |-> QaoaDecode(n, run.variables_dict), path |-> "decoded",
     by |-> "QAOA", raised |-> FALSE]

\* Seeded fault: VQE lets the exception of a failing step leave the solver.
vqe_without_handler(available, n, returns, covariance_matrix, risk_factor, run) ==
    IF available /\ run.raised_at # "none"
    THEN [weights |-> <<>>, path |-> "raised", by |-> "VQE", raised |-> TRUE]
    ELSE optimize_with_modern_portfolio_theory(n, returns, covariance_matrix,
                                               risk_factor, NoConstraints, NoResult)

\* run is what the quantum toolchain does once the solve is attempted:
\* run.raised_at names the step that raises ("none" when none does) and
\* run.variables_dict is result.variables_dict.
optimize_with_qaoa(available, n, returns, covariance_matrix, risk_factor, run) ==
    IF ~available
    THEN optimize_with_modern_portfolio_theory(n, returns, covariance_matrix,
                                               risk_factor, NoConstraints, NoResult)
    ELSE IF run.raised_at # "none"
    THEN optimize_with_modern_portfolio_theory(n, returns, covariance_matrix,
                                               risk_factor, NoConstraints, NoResult)
    ELSE [weights |-> QaoaDecode(n, run.variables_dict), path |-> "decoded",
          by |-> "QAOA", raised |-> FALSE]

optimize_with_vqe(available, n, returns, covariance_matrix, risk_factor, run) ==
    IF ~available
    THEN optimize_with_modern_portfolio_theory(n, returns, covariance_matrix,
                                               risk_factor, NoConstraints, NoResult)
    ELSE IF run.raised_at # "none"
    THEN optimize_with_modern_portfolio_theory(n, returns, covariance_matrix,
                                               risk_factor, NoConstraints, NoResult)
    ELSE [weights |-> VqeDecode(n, run.variables_dict), path |-> "decoded",
          by |-> "VQE", raised |-> FALSE]

----------------------------------------------------------------------------
(* Square roots and rounding                                               *)

\* A signed surd: the value sgn * sqrt(sq).
SNaN == [sgn |-> 0, sq |-> NaN]

SZero == [sgn |-> 0, sq |-> RZero]

SIsNaN(s) == IsNaN(s.sq)

Sign(x) == IF x[1] > 0 THEN 1 ELSE IF x[1] < 0 THEN -1 ELSE 0

\* np.sqrt: NaN for a negative argument (numpy warns and does not raise).
Sqrt(v) ==
    IF IsNaN(v) \/ RLt(v, RZero) THEN SNaN
    ELSE [sgn |-> Sign(v), sq |-> v]

\* x / s for a float x and a surd s that is not zero
DivBySurd(x, s) ==
    IF IsNaN(x) \/ SIsNaN(s) THEN SNaN
    ELSE [sgn |-> Sign(x) * s.sgn, sq |-> RDiv(RMul(x, x), s.sq)]

RECURSIVE ISqrtIn(_, _, _)
\* The largest f in lo..hi with f*f <= m, for lo*lo <= m.
ISqrtIn(m, lo, hi) ==
    IF lo = hi THEN lo
    ELSE LET mid == (lo + hi + 1) \div 2
         IN  IF mid * mid <= m THEN ISqrtIn(m, mid, hi) ELSE ISqrtIn(m, lo, mid - 1)

\* The integer nearest to p/q (q > 0), ties to the even one, as round() does.
RoundHalfEven(p, q) ==
    LET f == p \div q
        r == p % q
    IN  IF 2 * r < q THEN f
        ELSE IF 2 * r > q THEN f + 1
        ELSE IF f % 2 = 0 THEN f ELSE f + 1

\* round(x, digits) of a float
Round(x, digits) ==
    IF IsNaN(x) THEN NaN
    ELSE LET y == RMul(x, RInt(10 ^ digits))
         IN  Rat(RoundHalfEven(y[1], y[2]), 10 ^ digits)

\* The integer nearest to sqrt(a/b), ties to even, given f = floor(sqrt(a/b)):
\* f + 1 when sqrt(a/b) > f + 1/2, that is when 4 (a - f*f*b) > (4f + 1) b.
RoundSqrtFrom(a, b, f) ==
    IF (4 * f + 1) * b < 4 * (a - f * f * b) THEN f + 1
    ELSE IF (4 * f + 1) * b > 4 * (a - f * f * b) THEN f
    ELSE IF f % 2 = 0 THEN f ELSE f + 1

\* sgn * sqrt(w) rounded to the nearest multiple of 1/10^digits
RoundSignedSqrt(sgn, w, digits) ==
    Rat(sgn * RoundSqrtFrom(w[1], w[2],
                            ISqrtIn(w[1] \div w[2], 0,
                                    IF w[1] \div w[2] < 46340 THEN w[1] \div w[2]
                                    ELSE 46340)),
        10 ^ digits)

\* round(s * factor, digits) of a surd s
RoundSurd(s, factor, digits) ==
    IF SIsNaN(s) THEN NaN
    ELSE RoundSignedSqrt(s.sgn,
                         RMul(s.sq, RInt((factor * 10 ^ digits) * (factor * 10 ^ digits))),
                         digits)

----------------------------------------------------------------------------
(* Portfolio metrics                                                       *)

\* sharpe_ratio = (portfolio_return - risk_free_rate) / portfolio_risk
\*                if portfolio_risk > 0 else 0
SharpeRatio(portfolio_return, portfolio_risk) ==
    IF ~SIsNaN(portfolio_risk) /\ portfolio_risk.sgn = 1   \* > 0, false for NaN
    THEN DivBySurd(RSub(portfolio_return, risk_free_rate), portfolio_risk)
    ELSE SZero

LocalsOfRisk(portfolio_return, portfolio_variance, portfolio_risk) ==
    [portfolio_return |-> portfolio_return,
     portfolio_variance |-> portfolio_variance,
     portfolio_risk |-> portfolio_risk,
     sharpe_ratio |-> SharpeRatio(portfolio_return, portfolio_risk)]

LocalsOfVariance(portfolio_return, portfolio_variance) ==
    LocalsOfRisk(portfolio_return, portfolio_variance, Sqrt(portfolio_variance))

\* The locals of calculate_portfolio_metrics.
MetricsLocals(returns, covariance_matrix, weights) ==
    LocalsOfVariance(Dot(weights, returns), QuadForm(weights, covariance_matrix))

\* The dict calculate_portfolio_metrics returns, from its locals.
RoundedMetrics(locals) ==
    [expectedReturn |-> Round(RMul(locals.portfolio_return, RInt(100)), 2),
     expectedRisk |-> RoundSurd(locals.portfolio_risk, 100, 2),
     sharpeRatio |-> RoundSurd(locals.sharpe_ratio, 1, 3)]

calculate_portfolio_metrics(returns, covariance_matrix, weights) ==
    RoundedMetrics(MetricsLocals(returns, covariance_matrix, weights))

\* allocations[symbol] = round(float(weights[i] * 100), 2); a symbol that
\* occurs twice keeps the value of its last occurrence.
calculate_allocations(stocks, weights) ==
    [s \in {stocks[i].symbol : i \in 1..Len(stocks)} |->
        LET last == CHOOSE i \in 1..Len(stocks) :
                        /\ stocks[i].symbol = s
                        /\ \A j \in (i + 1)..Len(stocks) : stocks[j].symbol # s
        IN  Round(RMul(weights[last], RInt(100)), 2)]

----------------------------------------------------------------------------
(* Efficient-frontier sampler                                              *)

\* The dict appended to results for one sampled portfolio; draw is what
\* np.random.random(n_assets) returned.
RoundedPoint(locals) ==
    [risk |-> RoundSurd(locals.portfolio_risk, 100, 2),
     return |-> Round(RMul(locals.portfolio_return, RInt(100)), 2),
     sharpe |-> RoundSurd(locals.sharpe_ratio, 1, 3)]

FrontierPoint(returns, covariance_matrix, draw) ==
    RoundedPoint(MetricsLocals(returns, covariance_matrix, Normalize(draw)))

\* The sampling loop: one point per draw.
SampledPortfolios(returns, covariance_matrix, num_portfolios, draws) ==
    Array([k \in 1..num_portfolios |->
              FrontierPoint(returns, covariance_matrix, draws[k])])

\* The least element of the set S of integers, or default when S is empty.
LeastOr(S, default) ==
    IF S = {} THEN default ELSE CHOOSE i \in S : \A j \in S : i <= j

\* sorted with x put at position at
InsertAt(sorted, x, at) ==
    SubSeq(sorted, 1, at - 1) \o <<x>> \o SubSeq(sorted, at, Len(sorted))

\* sorted with x put behind every element whose risk is not greater
InsertByRisk(sorted, x) ==
    InsertAt(sorted, x,
             LeastOr({i \in 1..Len(sorted) : RLt(x.risk, sorted[i].risk)},
                     Len(sorted) + 1))

RECURSIVE SortByRiskFrom(_, _, _)
SortByRiskFrom(results, k, sorted) ==
    IF k > Len(results) THEN sorted
    ELSE SortByRiskFrom(results, k + 1, InsertByRisk(sorted, results[k]))

\* Seeded fault: the sort left out.
KeepSamplingOrder(results) == results

\* results.sort(key=lambda x: x['risk']): a stable sort
SortByRisk(results) == SortByRiskFrom(results, 1, <<>>)

RECURSIVE Sweep(_, _, _, _)
\* The filter loop: a portfolio is kept when its return exceeds max_return.
Sweep(results, k, max_return, efficient_frontier) ==
    IF k > Len(results) THEN efficient_frontier
    ELSE IF RGt(results[k].return, max_return)
    THEN Sweep(results, k + 1, results[k].return, Append(efficient_frontier, results[k]))
    ELSE Sweep(results, k + 1, max_return, efficient_frontier)

generate_efficient_frontier(returns, covariance_matrix, num_portfolios, draws) ==
    Sweep(SortByRisk(SampledPortfolios(returns, covariance_matrix, num_portfolios, draws)),
          1, NegInf, <<>>)

----------------------------------------------------------------------------
(* Backtest harness                                                        *)

\* A period string is the sequence of its characters.
Digits == <<"0", "1", "2", "3", "4", "5", "6", "7", "8", "9">>

\* period.endswith(suffix)
EndsWith(period, suffix) ==
    /\ Len(period) >= Len(suffix)
    /\ SubSeq(period, Len(period) - Len(suffix) + 1, Len(period)) = suffix

\* Whether int(text) returns; it raises ValueError otherwise.
IsInt(text) ==
    /\ Len(text) > 0
    /\ \A i \in 1..Len(text) : \E d \in 1..Len(Digits) : Digits[d] = text[i]

RECURSIVE IntOf(_)
\* int(text) of a string of digits
IntOf(text) ==
    IF Len(text) = 0 THEN 0
    ELSE 10 * IntOf(SubSeq(text, 1, Len(text) - 1))
         + (CHOOSE d \in 0..9 : Digits[d + 1] = text[Len(text)])

\* The head of the period loop: the lookback the period names, "skip" for
\* a period with neither suffix and "raise" where int() raises.
ParsePeriod(period) ==
    IF EndsWith(period, <<"m", "o">>)
    THEN LET text == SubSeq(period, 1, Len(period) - 2)
         IN  IF IsInt(text) THEN [kind |-> "months", count |-> IntOf(text)]
             ELSE [kind |-> "raise", count |-> 0]
    ELSE IF EndsWith(period, <<"y">>)
    THEN LET text == SubSeq(period, 1, Len(period) - 1)
         IN  IF IsInt(text) THEN [kind |-> "years", count |-> IntOf(text)]
             ELSE [kind |-> "raise", count |-> 0]
    ELSE [kind |-> "skip", count |-> 0]

\* The days of a month of the proleptic Gregorian calendar.
DaysInMonth(y, m) ==
    IF m = 2
    THEN IF y % 4 = 0 /\ (y % 100 # 0 \/ y % 400 = 0) THEN 29 ELSE 28
    ELSE IF m \in {4, 6, 9, 11} THEN 30 ELSE 31

\* date - relativedelta(months=k): the month moves back k months and the day
\* is cut to the last day of the month it lands in.  A date is <<y, m, d>>,
\* ordered as its '%Y-%m-%d' string is.
MinusMonths(date, k) ==
    LET t == (date[1] * 12 + (date[2] - 1)) - k
        y == t \div 12
        m == (t % 12) + 1
        last == DaysInMonth(y, m)
    IN  <<y, m, IF date[3] > last THEN last ELSE date[3]>>

\* The days datetime.now() falls on.
Nows == {<<2024, 2, 29>>, <<2024, 5, 31>>, <<2025, 3, 15>>}

\* lookback_date: now minus the months or years the period names
Lookback(today, period) ==
    MinusMonths(today, IF ParsePeriod(period).kind = "months"
                       THEN ParsePeriod(period).count
                       ELSE 12 * ParsePeriod(period).count)

\* Seeded fault: the actual download starts where the training download
\* starts.
DownloadWindowsOverlapping(today, lookback_date) ==
    [training |-> [start |-> MinusMonths(lookback_date, 12), end |-> lookback_date],
     actual |-> [start |-> MinusMonths(lookback_date, 12), end |-> today]]

\* The start and end the two yf.download calls of a pass are given; a
\* download returns the rows dated from start on and before end.
DownloadWindows(today, lookback_date) ==
    [training |-> [start |-> MinusMonths(lookback_date, 12), end |-> lookback_date],
     actual |-> [start |-> lookback_date, end |-> today]]

\* risk_factor = 5.0  # Default risk level
backtest_risk_factor == RInt(5)

\* The three rounded figures a record keeps of a metrics dict.
RecordMetrics(m) ==
    [return |-> Round(m.expectedReturn, 2),
     risk |-> Round(m.expectedRisk, 2),
     sharpe |-> Round(m.sharpeRatio, 3)]

\* Seeded fault: the weights are optimized again on the actual window
\* before the actual metrics are computed.
BacktestRecordReoptimized(period, lookback, n_stocks, training, actual) ==
    LET optimal_weights ==
            optimize_with_modern_portfolio_theory(n_stocks, training.returns,
                training.covariance_matrix, backtest_risk_factor,
                NoConstraints, NoResult).weights
        reoptimized_weights ==
            optimize_with_modern_portfolio_theory(n_stocks, actual.returns,
                actual.covariance_matrix, backtest_risk_factor,
                NoConstraints, NoResult).weights
        predicted_metrics ==
            calculate_portfolio_metrics(training.returns, training.covariance_matrix,
                                        optimal_weights)
        actual_metrics ==
            calculate_portfolio_metrics(actual.returns, actual.covariance_matrix,
                                        reoptimized_weights)
        baseline_metrics ==
            calculate_portfolio_metrics(actual.returns, actual.covariance_matrix,
                                        EqualWeights(n_stocks))
    IN  [period |-> period,
         lookbackDate |-> lookback,
         predicted |-> RecordMetrics(predicted_metrics),
         actual |-> RecordMetrics(actual_metrics),
         baseline |-> RecordMetrics(baseline_metrics),
         outperformance |-> Round(RSub(actual_metrics.expectedReturn,
                                       baseline_metrics.expectedReturn), 2)]

\* The record appended for a period whose two fetches returned tables with
\* the statistics training and actual.
BacktestRecord(period, lookback, n_stocks, training, actual) ==
    LET optimal_weights ==
            optimize_with_modern_portfolio_theory(n_stocks, training.returns,
                training.covariance_matrix, backtest_risk_factor,
                NoConstraints, NoResult).weights
        predicted_metrics ==
            calculate_portfolio_metrics(training.returns, training.covariance_matrix,
                                        optimal_weights)
        actual_metrics ==
            calculate_portfolio_metrics(actual.returns, actual.covariance_matrix,
                                        optimal_weights)
        baseline_metrics ==
            calculate_portfolio_metrics(actual.returns, actual.covariance_matrix,
                                        EqualWeights(n_stocks))
    IN  [period |-> period,
         lookbackDate |-> lookback,
         predicted |-> RecordMetrics(predicted_metrics),
         actual |-> RecordMetrics(actual_metrics),
         baseline |-> RecordMetrics(baseline_metrics),
         outperformance |-> Round(RSub(actual_metrics.expectedReturn,
                                       baseline_metrics.expectedReturn), 2)]

\* What one pass of the period loop does with the period and its fetches:
\* "record" when it appends a record, else the reason it appends none.
PeriodOutcome(period, fetch) ==
    LET parsed == ParsePeriod(period)
    IN  IF parsed.kind = "skip" THEN "skipped"
        ELSE IF parsed.kind = "raise" THEN "error"
        ELSE IF fetch.training = "raise" THEN "error"
        ELSE IF fetch.training = "empty" THEN "no_training_data"
        ELSE IF fetch.actual = "raise" THEN "error"
        ELSE IF fetch.actual = "empty" THEN "no_actual_data"
        ELSE "record"

----------------------------------------------------------------------------
(* The request                                                             *)

\* dict.get(key, default) of an optional value: <<>> when the key is absent,
\* <<v>> when it holds v.
Get(optional, default) == IF optional = <<>> THEN default ELSE optional[1]

\* str.upper() on the method names a caller passes
Upper(s) ==
    IF s = "mpt" THEN "MPT"
    ELSE IF s = "qaoa" THEN "QAOA"
    ELSE IF s = "vqe" THEN "VQE"
    ELSE s

\* str.lower() on the flags a caller passes
Lower(s) ==
    IF s = "True" \/ s = "TRUE" THEN "true"
    ELSE IF s = "False" \/ s = "FALSE" THEN "false"
    ELSE s

\* constraints_data.get(symbol, {}).get(key, default) for every stock
BoundsOf(stocks, constraints_data, key, default) ==
    [i \in 1..Len(stocks) |->
        IF stocks[i].symbol \in DOMAIN constraints_data
        THEN Get(constraints_data[stocks[i].symbol][key], default)
        ELSE default]

\* The constraints main builds from the request.
ParseConstraints(request_data) ==
    IF request_data.constraints = <<>> THEN NoConstraints
    ELSE [present |-> TRUE,
          min_weights |-> BoundsOf(request_data.stocks, request_data.constraints[1],
                                   "min", RZero),
          max_weights |-> BoundsOf(request_data.stocks, request_data.constraints[1],
                                   "max", ROne)]

\* Whether main's current-weights block raises KeyError: the first stock
\* has quantity and currentPrice and a later one lacks either.
HoldingsFormat(stocks) == stocks[1].quantity # <<>> /\ stocks[1].currentPrice # <<>>

CurrentWeightsRaise(stocks) ==
    /\ HoldingsFormat(stocks)
    /\ \E i \in 1..Len(stocks) : stocks[i].quantity = <<>> \/ stocks[i].currentPrice = <<>>

\* The value main weighs a stock by.
CurrentValue(stocks, i) ==
    IF HoldingsFormat(stocks)
    THEN stocks[i].quantity[1] * stocks[i].currentPrice[1]
    ELSE Get(stocks[i].investmentAmount, 0)

RECURSIVE TotalValue(_, _)
TotalValue(stocks, i) ==
    IF i = 0 THEN 0 ELSE CurrentValue(stocks, i) + TotalValue(stocks, i - 1)

CurrentWeights(stocks) ==
    LET total == TotalValue(stocks, Len(stocks))
    IN  [i \in 1..Len(stocks) |->
            IF total > 0 THEN Rat(CurrentValue(stocks, i), total)
            ELSE Rat(1, Len(stocks))]

\* The success envelope main prints.
SuccessEnvelope(allocations, metrics, optimization_reason, recommendation_reasons, session_id, efficient_frontier, current_metrics, backtest_results, method_name, stocks, total_investment) ==
    [allocation |-> allocations,
     expectedReturn |-> metrics.expectedReturn,
     expectedRisk |-> metrics.expectedRisk,
     sharpeRatio |-> metrics.sharpeRatio,
     optimizationReason |-> optimization_reason,
     recommendationReasons |-> recommendation_reasons,
     visualizationPath |-> "/api/visualization/" \o session_id,
     efficientFrontier |-> efficient_frontier,
     currentPortfolio |-> [risk |-> current_metrics.expectedRisk,
                           return |-> current_metrics.expectedReturn,
                           sharpe |-> current_metrics.sharpeRatio],
     optimizedPortfolio |-> [risk |-> metrics.expectedRisk,
                             return |-> metrics.expectedReturn,
                             sharpe |-> metrics.sharpeRatio],
     backtestResults |-> backtest_results,
     additionalMetrics |-> [optimizationMethod |-> method_name,
                            numberOfStocks |-> Len(stocks),
                            totalInvestment |-> total_investment,
                            timestamp |-> "now"]]

\* The error envelope main prints; e is str(e).
ErrorEnvelope(e) ==
    [error |-> e,
     allocation |-> <<>>,
     expectedReturn |-> RZero,
     expectedRisk |-> RZero,
     sharpeRatio |-> RZero,
     visualizationPath |-> "",
     additionalMetrics |-> <<>>]

----------------------------------------------------------------------------
(* State                                                                   *)

VARIABLES
    pc,                 \* where the modelled run is
    \* what the world does, fixed when the run starts
    QUANTUM_AVAILABLE,  \* the module-level flag set by the qiskit imports
    argv,               \* sys.argv
    request,            \* the input file: <<>> unreadable, <<request_data>>
    market,             \* what the data fetch of main does
    fault,              \* the stage of main in which the runtime raises
    minimize_result,    \* what scipy's minimize does if it is called
    quantum_run,        \* what the quantum toolchain does if it is called
    num_portfolios,     \* the sampler's num_portfolios argument
    draws,              \* what np.random.random returns, call by call
    backtest_setup,     \* what the imports and the symbol list of the backtest do
    periods,            \* the backtest's periods argument
    fetches,            \* what the two downloads of each period do
    \* the locals of main
    method,             \* sys.argv[3].upper()
    use_real_data,      \* sys.argv[4].lower() == 'true'
    stocks,
    total_investment,
    target_risk,
    use_real_data_from_request,
    constraints,        \* the constraints dict built by main, or None
    returns,            \* the ReturnVector
    covariance_matrix,  \* the CovarianceMatrix
    data_source,        \* which fetch produced the statistics
    n,                  \* len(returns)
    risk_factor,        \* the risk factor handed to the solver
    weights,            \* the weight vector handed back to main
    solver_path,        \* the return path the solver took
    produced_by,        \* the solver whose code computed weights
    method_name,
    allocations,
    metrics,
    current_weights,
    optimization_reason,
    recommendation_reasons,
    efficient_frontier,
    current_metrics,
    \* the locals of backtest_optimization
    period_index,       \* the position of the period loop, from 1
    backtest_status,    \* "idle", "running" or "returned"
    backtest_results,
    recorded,           \* the positions whose period appended a record
    \* what the caller sees
    stdout,             \* the envelopes printed to stdout, in order
    exit_code,          \* <<>> while the process runs, then <<code>>
    raised,             \* the stage whose exception reached main's except
    completed,          \* the stages of main that ran to their end
    qp,                 \* <<>>, or <<the quadratic program a quantum solver built>>
    windows,            \* <<>>, or <<the day backtest_optimization runs on and the
                        \* date windows of the downloads of its latest pass>>
    \* what outlives a call
    rng,                \* numpy's global generator: the seed last set and the
                        \* number of values drawn since
    recomputed          \* <<>>, or <<the generator state a further sampler call
                        \* found and the list it returned>>

env == <<QUANTUM_AVAILABLE, argv, request, market, fault, minimize_result, quantum_run,
         num_portfolios, draws, backtest_setup, periods, fetches>>

vars == <<pc, env, method, use_real_data, stocks, total_investment, target_risk,
          use_real_data_from_request, constraints, returns, covariance_matrix,
          data_source, n, risk_factor, weights, solver_path, produced_by, method_name,
          allocations, metrics, current_weights, optimization_reason,
          recommendation_reasons, efficient_frontier, current_metrics, period_index,
          backtest_status, backtest_results, recorded, stdout, exit_code, raised,
          completed, rng, recomputed, qp, windows>>

----------------------------------------------------------------------------
(* Inputs                                                                  *)

\* The annualized returns of the model's assets.
ReturnValues == {Rat(-4, 100), Rat(8, 100)}

\* The symmetric matrix with diagonal d and entries off[<<i, j>>], i < j.
Symmetric(m, d, off) ==
    [i \in 1..m |-> [j \in 1..m |->
        IF i = j THEN d[i] ELSE IF i < j THEN off[<<i, j>>] ELSE off[<<j, i>>]]]

\* The symmetric matrices over the model's variances and covariances.
SymmetricMatrices(m) ==
    LET pairs == {p \in (1..m) \X (1..m) : p[1] < p[2]}
    IN  {Symmetric(m, d, off) : d \in [1..m -> {RZero, Rat(1, 100), Rat(4, 100)}],
                                off \in [pairs -> {Rat(-1, 100), RZero, Rat(1, 100)}]}

\* The elements of the set S in ascending order.
RECURSIVE Ascending(_)
Ascending(S) ==
    IF S = {} THEN <<>>
    ELSE LET x == CHOOSE y \in S : \A z \in S : y <= z
         IN  <<x>> \o Ascending(S \ {x})

\* Positive semidefinite: every principal minor, the determinant of M
\* restricted to the rows and columns of a set S, is >= 0.
IsPSD(M) ==
    \A S \in SUBSET (1..Len(M)) :
        LET idx == Ascending(S)
        IN  RGe(Det([r \in 1..Len(idx) |-> [c \in 1..Len(idx) |-> M[idx[r]][idx[c]]]]),
                RZero)

\* The (returns, covariance) pairs of m assets that satisfy the data model.
Statistics(m) ==
    {[returns |-> r, covariance_matrix |-> c] :
        r \in [1..m -> ReturnValues],
        c \in {M \in SymmetricMatrices(m) : IsPSD(M)}}

\* One pair per asset count, for the calls whose result the statistics
\* cannot influence in the model.
SomeStatistics(m) ==
    {[returns |-> [i \in 1..m |-> Rat(4 * i, 100)],
      covariance_matrix |-> [i \in 1..m |-> [j \in 1..m |->
                                IF i = j THEN Rat(i, 100) ELSE RZero]]]}

GridVectors(m) == {[i \in 1..m |-> Rat(g[i], Grid)] : g \in [1..m -> 0..Grid]}

\* The feasible bound sets: 0 <= min_i <= max_i <= 1 and
\* sum(min) <= 1 <= sum(max).
ConstraintSets(m) ==
    {c \in {[present |-> TRUE, min_weights |-> lo, max_weights |-> hi] :
               lo \in GridVectors(m), hi \in GridVectors(m)} :
        /\ \A i \in 1..m :
              /\ RLe(RZero, c.min_weights[i])
              /\ RLe(c.min_weights[i], c.max_weights[i])
              /\ RLe(c.max_weights[i], ROne)
        /\ RLe(VSum(c.min_weights), ROne)
        /\ RLe(ROne, VSum(c.max_weights))}

\* scipy's minimize: it raises, or it stops without success, or it succeeds
\* with a point that satisfies the bounds and the constraint sum(w) = 1.
MinimizeResults(m, c) ==
    {[raises |-> TRUE, success |-> FALSE, x |-> <<>>],
     [raises |-> FALSE, success |-> FALSE, x |-> <<>>]}
    \cup {[raises |-> FALSE, success |-> TRUE, x |-> x] :
             x \in {y \in GridVectors(m) :
                      /\ \A i \in 1..m : /\ RLe(c.min_weights[i], y[i])
                                         /\ RLe(y[i], c.max_weights[i])
                      /\ VSum(y) = ROne}}

NoRun == [raised_at |-> "none", variables_dict |-> <<>>]

\* result.variables_dict: 0.0 or 1.0 for every variable, or a dict that
\* lacks one variable and holds 0.0 or 1.0 throughout.
VariablesDicts(V) ==
    [V -> {0, 1}] \cup {[w \in V \ {v} |-> b] : v \in V, b \in {0, 1}}

\* The runs of the quantum toolchain in which a step of the solve raises.
RaisingRuns ==
    {[raised_at |-> s, variables_dict |-> <<>>] :
        s \in {"build", "convert", "solve", "decode"}}

\* The runs of the quantum toolchain that hand a result to the decoder.
ReturningRuns(meth, m) ==
    {[raised_at |-> "none", variables_dict |-> d] :
        d \in VariablesDicts(IF meth = "QAOA" THEN QaoaVars(m) ELSE VqeVars(m))}

\* The statistics of the sampler's calls: the assets uncorrelated and in
\* the order of their returns (the draws below treat all assets alike).
FrontierStatistics(m) ==
    {st \in Statistics(m) :
        /\ \A i, j \in 1..m : i # j => st.covariance_matrix[i][j] = RZero
        /\ \A i \in 1..(m - 1) : RLe(st.returns[i], st.returns[i + 1])}

\* np.random.random(m): values in (0, 1), here one asset drawn high and
\* the others low, or all drawn alike.
DrawVectors(m) ==
    {[i \in 1..m |-> IF i = h THEN Rat(Grid - 1, Grid) ELSE Rat(1, Grid)] : h \in 0..m}

\* The stocks of a request, by the fields they carry.
StockLists(m) ==
    {[i \in 1..m |-> [symbol |-> i, quantity |-> <<>>, currentPrice |-> <<>>,
                      investmentAmount |-> <<100 * i>>]],
     [i \in 1..m |-> [symbol |-> i, quantity |-> <<>>, currentPrice |-> <<>>,
                      investmentAmount |-> <<>>]],
     [i \in 1..m |-> [symbol |-> i, quantity |-> <<i>>, currentPrice |-> <<10>>,
                      investmentAmount |-> <<>>]],
     [i \in 1..m |-> [symbol |-> i,
                      quantity |-> IF i = 1 THEN <<1>> ELSE <<>>,
                      currentPrice |-> <<10>>,
                      investmentAmount |-> <<>>]]}

SomeStocks(m) ==
    [i \in 1..m |-> [symbol |-> i, quantity |-> <<>>, currentPrice |-> <<>>,
                     investmentAmount |-> <<100 * i>>]]

\* The request's constraints object: per-symbol 'min' and 'max', each optional.
ConstraintsData(m) ==
    {<<>>,
     (1 :> [min |-> <<Rat(1, 2)>>, max |-> <<>>]),
     (1 :> [min |-> <<Rat(3, 4)>>, max |-> <<>>]),
     [s \in 1..m |-> [min |-> <<>>, max |-> <<Rat(1, 2)>>]]}

SomeRequest(m) ==
    [stocks |-> SomeStocks(m), totalInvestment |-> <<5000>>, targetRiskLevel |-> <<>>,
     useRealData |-> <<>>, constraints |-> <<>>]

Requests(m) ==
    {[stocks |-> s, totalInvestment |-> <<5000>>, targetRiskLevel |-> <<>>,
      useRealData |-> u, constraints |-> c] :
        s \in StockLists(m),
        u \in {<<>>, <<TRUE>>, <<FALSE>>},
        c \in {<<>>} \cup {<<d>> : d \in ConstraintsData(m)}}
    \cup {[SomeRequest(m) EXCEPT !.targetRiskLevel = <<t>>] : t \in {0, 10}}
    \cup {[SomeRequest(m) EXCEPT !.totalInvestment = <<>>]}

SomeMarket(m) ==
    [real |-> "ok", real_stats |-> CHOOSE st \in SomeStatistics(m) : TRUE,
     simulated |-> <<CHOOSE st \in SomeStatistics(m) : TRUE>>]

\* The data fetch: the download returns a table ("ok"), returns a table of
\* a single observation ("short"), whose pct_change().dropna() is empty and
\* whose mean and covariance are NaN, returns an empty table or raises; the
\* simulation returns statistics or raises.
Markets(m) ==
    {[real |-> r,
      real_stats |-> IF r = "short"
                     THEN [returns |-> [i \in 1..m |-> NaN],
                           covariance_matrix |-> [i \in 1..m |-> [j \in 1..m |-> NaN]]]
                     ELSE CHOOSE st \in SomeStatistics(m) : TRUE,
      simulated |-> s] :
        r \in {"ok", "short", "empty", "raise"},
        s \in {<<>>, <<CHOOSE st \in SomeStatistics(m) : TRUE>>}}

\* sys.argv: the script, the input file, the session id, then optionally
\* the method and the use_real_data flag.
SomeArgv == <<"optimize_portfolio.py", "input.json", "session">>

Argvs ==
    {SubSeq(SomeArgv, 1, 2), SomeArgv}
    \cup {SomeArgv \o <<m>> : m \in {"mpt", "qaoa", "VQE"}}
    \cup {SomeArgv \o <<m, u>> : m \in {"mpt", "qaoa", "VQE"}, u \in {"True", "false"}}

\* periods=['3mo', '6mo', '1y']
MainPeriods == <<<<"3", "m", "o">>, <<"6", "m", "o">>, <<"1", "y">>>>

PeriodStrings == {<<"3", "m", "o">>, <<"1", "y">>, <<"5", "d">>, <<"x", "m", "o">>}

\* What the two downloads of one period do: each returns a table with
\* statistics, returns an empty table, or raises.  A download the loop
\* does not reach is "empty".  The two windows have statistics of their
\* own: the returns rise with the asset in the training window and fall
\* with it in the actual one.
Fetches(m) ==
    LET table == [returns |-> [i \in 1..m |-> Rat(4 * i, 100)],
                  covariance_matrix |-> [i \in 1..m |-> [j \in 1..m |->
                      IF i = j THEN Rat(1, 100) ELSE RZero]]]
        later == [returns |-> [i \in 1..m |-> Rat(3 * (m + 1 - i), 100)],
                  covariance_matrix |-> [i \in 1..m |-> [j \in 1..m |->
                      IF i = j THEN Rat(4, 100) ELSE RZero]]]
    IN  {[training |-> "empty", training_stats |-> <<>>,
          actual |-> "empty", actual_stats |-> <<>>],
         [training |-> "raise", training_stats |-> <<>>,
          actual |-> "empty", actual_stats |-> <<>>],
         [training |-> "table", training_stats |-> table,
          actual |-> "empty", actual_stats |-> <<>>],
         [training |-> "table", training_stats |-> table,
          actual |-> "raise", actual_stats |-> <<>>],
         [training |-> "table", training_stats |-> table,
          actual |-> "table", actual_stats |-> later]}

SomeFetch(m) ==
    CHOOSE f \in Fetches(m) : f.training = "table" /\ f.actual = "table"

EmptyFetch(m) ==
    CHOOSE f \in Fetches(m) : f.training = "empty"

\* A period with what its downloads do; an unparsed period downloads nothing.
PeriodEntries(m) ==
    {<<p, f>> : p \in {q \in PeriodStrings : ParsePeriod(q).kind = "months"},
                f \in Fetches(m)}
    \cup {<<p, f>> : p \in {q \in PeriodStrings : ParsePeriod(q).kind = "years"},
                     f \in {SomeFetch(m), EmptyFetch(m)}}
    \cup {<<p, EmptyFetch(m)>> :
             p \in {q \in PeriodStrings : ParsePeriod(q).kind \notin {"months", "years"}}}

\* The imports and the symbol list of backtest_optimization.
BacktestSetups == {"ok", "ImportError", "Exception"}

----------------------------------------------------------------------------
(* main                                                                    *)

Stages == {"load", "fetch", "build", "solve", "analyse", "current_weights", "reasons",
           "frontier", "current_metrics", "backtest", "emit"}

\* An exception leaves the stage and reaches the except clause of main.
Raise(stage) ==
    /\ pc' = "except"
    /\ raised' = stage
    /\ UNCHANGED completed

\* The stage runs to its end and main goes on.
Complete(stage, next) ==
    /\ pc' = next
    /\ completed' = completed \cup {stage}
    /\ UNCHANGED raised

\* The argument handling ahead of the try block.
Start ==
    /\ pc = "start"
    /\ IF Len(argv) < 3
       THEN /\ exit_code' = <<1>>
            /\ pc' = "done"
            /\ UNCHANGED <<method, use_real_data>>
       ELSE /\ method' = IF Len(argv) > 3 THEN Upper(argv[4]) ELSE "MPT"
            /\ use_real_data' = IF Len(argv) > 4 THEN Lower(argv[5]) = "true" ELSE TRUE
            /\ pc' = "load"
            /\ UNCHANGED exit_code
    /\ UNCHANGED <<env, stocks, total_investment, target_risk,
                   use_real_data_from_request, constraints, returns, covariance_matrix,
                   data_source, n, risk_factor, weights, solver_path, produced_by,
                   method_name, allocations, metrics, current_weights,
                   optimization_reason, recommendation_reasons, efficient_frontier,
                   current_metrics, period_index, backtest_status, backtest_results,
                   recorded, stdout, raised, completed, rng, recomputed, qp, windows>>

\* load_input_data and the reading of the request.
Load ==
    /\ pc = "load"
    /\ IF request = <<>>
       THEN /\ Raise("load")
            /\ UNCHANGED <<stocks, total_investment, target_risk,
                           use_real_data_from_request, constraints>>
       ELSE /\ stocks' = request[1].stocks
            /\ total_investment' = Get(request[1].totalInvestment, 10000)
            /\ target_risk' = Get(request[1].targetRiskLevel, 5)
            /\ use_real_data_from_request' = Get(request[1].useRealData, use_real_data)
            /\ constraints' = ParseConstraints(request[1])
            /\ Complete("load", "fetch")
    /\ UNCHANGED <<env, method, use_real_data, returns, covariance_matrix, data_source,
                   n, risk_factor, weights, solver_path, produced_by, method_name,
                   allocations, metrics, current_weights, optimization_reason,
                   recommendation_reasons, efficient_frontier, current_metrics,
                   period_index, backtest_status, backtest_results, recorded, stdout,
                   exit_code, rng, recomputed, qp, windows>>

\* The statistics fetch_historical_data returns, <<>> when it raises.
FetchedStatistics ==
    IF use_real_data_from_request /\ market.real \in {"ok", "short"}
    THEN <<[stats |-> market.real_stats, source |-> "real"]>>
    ELSE IF market.simulated = <<>> THEN <<>>
    ELSE <<[stats |-> market.simulated[1], source |-> "simulated"]>>

Fetch ==
    /\ pc = "fetch"
    /\ IF FetchedStatistics = <<>>
       THEN /\ Raise("fetch")
            /\ UNCHANGED <<returns, covariance_matrix, data_source>>
       ELSE /\ returns' = FetchedStatistics[1].stats.returns
            /\ covariance_matrix' = FetchedStatistics[1].stats.covariance_matrix
            /\ data_source' = FetchedStatistics[1].source
            /\ Complete("fetch", "build")
    \* fetch_simulated_data seeds the generator from the symbols and draws the
    \* correlation matrix
    /\ rng' = IF use_real_data_from_request /\ market.real \in {"ok", "short"}
              THEN rng
              ELSE [seed |-> "symbols",
                    drawn |-> IF market.simulated = <<>> THEN 0
                              ELSE Len(stocks) * Len(stocks)]
    /\ UNCHANGED <<env, method, use_real_data, stocks, total_investment, target_risk,
                   use_real_data_from_request, constraints, n, risk_factor, weights,
                   solver_path, produced_by, method_name, allocations, metrics,
                   current_weights, optimization_reason, recommendation_reasons,
                   efficient_frontier, current_metrics, period_index, backtest_status,
                   backtest_results, recorded, stdout, exit_code, recomputed, qp,
                   windows>>

\* risk_factor = target_risk / 10.0 and build_portfolio_optimization_problem
Build ==
    /\ pc = "build"
    /\ IF Len(returns) = 0
       THEN /\ Raise("build")
            /\ UNCHANGED <<n, risk_factor>>
       ELSE /\ n' = Len(returns)
            /\ risk_factor' = Rat(target_risk, 10)
            /\ Complete("build", "solve")
    /\ UNCHANGED <<env, method, use_real_data, stocks, total_investment, target_risk,
                   use_real_data_from_request, constraints, returns, covariance_matrix,
                   data_source, weights, solver_path, produced_by, method_name,
                   allocations, metrics, current_weights, optimization_reason,
                   recommendation_reasons, efficient_frontier, current_metrics,
                   period_index, backtest_status, backtest_results, recorded, stdout,
                   exit_code, rng, recomputed, qp, windows>>

MethodName(meth) ==
    IF meth = "QAOA" THEN "QAOA (Quantum Approximate Optimization Algorithm)"
    ELSE IF meth = "VQE" THEN "VQE (Variational Quantum Eigensolver)"
    ELSE "Modern Portfolio Theory (MPT)"

\* Seeded fault: the classical fallback of a quantum method is given the
\* constraints of the request.
SolverResultConstrainedFallback ==
    IF method \in {"QAOA", "VQE"} /\ QUANTUM_AVAILABLE /\ quantum_run.raised_at = "none"
    THEN [weights |-> IF method = "QAOA" THEN QaoaDecode(n, quantum_run.variables_dict)
                      ELSE VqeDecode(n, quantum_run.variables_dict),
          path |-> "decoded", by |-> method, raised |-> FALSE]
    ELSE optimize_with_modern_portfolio_theory(n, returns, covariance_matrix,
                                               risk_factor, constraints, minimize_result)

SolverResult ==
    IF method = "QAOA"
    THEN optimize_with_qaoa(QUANTUM_AVAILABLE, n, returns, covariance_matrix,
                            risk_factor, quantum_run)
    ELSE IF method = "VQE"
    THEN optimize_with_vqe(QUANTUM_AVAILABLE, n, returns, covariance_matrix,
                           risk_factor, quantum_run)
    ELSE optimize_with_modern_portfolio_theory(n, returns, covariance_matrix,
                                               risk_factor, constraints, minimize_result)

\* The method selection of main: the solver call and method_name.
Solve ==
    /\ pc = "solve"
    /\ \E r \in {SolverResult} :
          /\ weights' = r.weights
          /\ solver_path' = r.path
          /\ produced_by' = r.by
          /\ IF r.raised
             THEN Raise("solve") /\ UNCHANGED method_name
             ELSE Complete("solve", "solved") /\ method_name' = MethodName(method)
    /\ qp' = IF /\ method \in {"QAOA", "VQE"}
                /\ QUANTUM_AVAILABLE
                /\ quantum_run.raised_at # "build"
             THEN <<QuadraticProgram(method, n, returns, covariance_matrix, risk_factor)>>
             ELSE <<>>
    /\ UNCHANGED <<env, method, use_real_data, stocks, total_investment, target_risk,
                   use_real_data_from_request, constraints, returns, covariance_matrix,
                   data_source, n, risk_factor, allocations, metrics, current_weights,
                   optimization_reason, recommendation_reasons, efficient_frontier,
                   current_metrics, period_index, backtest_status, backtest_results,
                   recorded, stdout, exit_code, rng, recomputed, windows>>

\* calculate_allocations and calculate_portfolio_metrics
Analyse ==
    /\ pc = "solved"
    /\ IF fault = "analyse"
       THEN /\ Raise("analyse")
            /\ UNCHANGED <<allocations, metrics>>
       ELSE /\ allocations' = calculate_allocations(stocks, weights)
            /\ metrics' = calculate_portfolio_metrics(returns, covariance_matrix, weights)
            /\ Complete("analyse", "current_weights")
    /\ UNCHANGED <<env, method, use_real_data, stocks, total_investment, target_risk,
                   use_real_data_from_request, constraints, returns, covariance_matrix,
                   data_source, n, risk_factor, weights, solver_path, produced_by,
                   method_name, current_weights, optimization_reason,
                   recommendation_reasons, efficient_frontier, current_metrics,
                   period_index, backtest_status, backtest_results, recorded, stdout,
                   exit_code, rng, recomputed, qp, windows>>

\* The current portfolio weights.
CurrentWeightsStep ==
    /\ pc = "current_weights"
    /\ IF CurrentWeightsRaise(stocks)
       THEN /\ Raise("current_weights")
            /\ UNCHANGED current_weights
       ELSE /\ current_weights' = CurrentWeights(stocks)
            /\ Complete("current_weights", "reasons")
    /\ UNCHANGED <<env, method, use_real_data, stocks, total_investment, target_risk,
                   use_real_data_from_request, constraints, returns, covariance_matrix,
                   data_source, n, risk_factor, weights, solver_path, produced_by,
                   method_name, allocations, metrics, optimization_reason,
                   recommendation_reasons, efficient_frontier, current_metrics,
                   period_index, backtest_status, backtest_results, recorded, stdout,
                   exit_code, rng, recomputed, qp, windows>>

\* generate_optimization_reason and generate_recommendation_reasons: text.
Reasons ==
    /\ pc = "reasons"
    /\ IF fault = "reasons"
       THEN /\ Raise("reasons")
            /\ UNCHANGED <<optimization_reason, recommendation_reasons>>
       ELSE /\ optimization_reason' = "reason"
            /\ recommendation_reasons' = [i \in 1..Len(stocks) |-> "reason"]
            /\ Complete("reasons", "frontier")
    /\ UNCHANGED <<env, method, use_real_data, stocks, total_investment, target_risk,
                   use_real_data_from_request, constraints, returns, covariance_matrix,
                   data_source, n, risk_factor, weights, solver_path, produced_by,
                   method_name, allocations, metrics, current_weights,
                   efficient_frontier, current_metrics, period_index, backtest_status,
                   backtest_results, recorded, stdout, exit_code, rng, recomputed, qp,
                   windows>>

\* The sampler call.
\* The generator after np.random.seed(42) and num_portfolios draws of
\* n_assets values each.
SeededAndDrawn(k, m) == [seed |-> "42", drawn |-> k * m]

\* The sampler run where np.random.seed(42) is left out: the draws continue
\* the stream from wherever the generator stands.
RecomputeUnseeded ==
    /\ pc = "current_metrics"
    /\ recomputed = <<>>
    /\ recomputed' = <<[found |-> rng,
                        frontier |-> generate_efficient_frontier(returns,
                                         covariance_matrix, num_portfolios,
                                         IF rng = [seed |-> "42", drawn |-> 0]
                                         THEN draws
                                         ELSE [j \in 1..num_portfolios |-> draws[1]])]>>
    /\ rng' = [seed |-> rng.seed, drawn |-> rng.drawn + num_portfolios * Len(returns)]
    /\ UNCHANGED <<env, method, use_real_data, stocks, total_investment, target_risk,
                   use_real_data_from_request, constraints, returns, covariance_matrix,
                   data_source, n, risk_factor, weights, solver_path, produced_by,
                   method_name, allocations, metrics, current_weights,
                   optimization_reason, recommendation_reasons, efficient_frontier,
                   current_metrics, period_index, backtest_status, backtest_results,
                   recorded, stdout, exit_code, pc, raised, completed, qp, windows>>

Frontier ==
    /\ pc = "frontier"
    /\ IF fault = "frontier"
       THEN /\ Raise("frontier")
            /\ UNCHANGED <<efficient_frontier, rng>>
       ELSE /\ efficient_frontier' =
                   generate_efficient_frontier(returns, covariance_matrix,
                                               num_portfolios, draws)
            /\ rng' = SeededAndDrawn(num_portfolios, Len(returns))
            /\ Complete("frontier", "current_metrics")
    /\ UNCHANGED <<env, method, use_real_data, stocks, total_investment, target_risk,
                   use_real_data_from_request, constraints, returns, covariance_matrix,
                   data_source, n, risk_factor, weights, solver_path, produced_by,
                   method_name, allocations, metrics, current_weights,
                   optimization_reason, recommendation_reasons, current_metrics,
                   period_index, backtest_status, backtest_results, recorded, stdout,
                   exit_code, recomputed, qp, windows>>

\* A further call of generate_efficient_frontier with the arguments of the
\* first: np.random.seed(42) resets the generator whatever its state, so the
\* call draws the vectors the first call drew.
Recompute ==
    /\ pc = "current_metrics"
    /\ recomputed = <<>>
    /\ recomputed' = <<[found |-> rng,
                        frontier |-> generate_efficient_frontier(returns,
                                         covariance_matrix, num_portfolios, draws)]>>
    /\ rng' = SeededAndDrawn(num_portfolios, Len(returns))
    /\ UNCHANGED <<env, method, use_real_data, stocks, total_investment, target_risk,
                   use_real_data_from_request, constraints, returns, covariance_matrix,
                   data_source, n, risk_factor, weights, solver_path, produced_by,
                   method_name, allocations, metrics, current_weights,
                   optimization_reason, recommendation_reasons, efficient_frontier,
                   current_metrics, period_index, backtest_status, backtest_results,
                   recorded, stdout, exit_code, pc, raised, completed, qp, windows>>

\* Another user of the global generator between two sampler calls:
\* fetch_simulated_data seeds it from the symbols and draws n * n values.
OtherRandomUse ==
    /\ pc = "current_metrics"
    /\ recomputed = <<>>
    /\ rng.seed = "42"
    /\ rng' = [seed |-> "symbols", drawn |-> Len(returns) * Len(returns)]
    /\ UNCHANGED <<env, method, use_real_data, stocks, total_investment, target_risk,
                   use_real_data_from_request, constraints, returns, covariance_matrix,
                   data_source, n, risk_factor, weights, solver_path, produced_by,
                   method_name, allocations, metrics, current_weights,
                   optimization_reason, recommendation_reasons, efficient_frontier,
                   current_metrics, period_index, backtest_status, backtest_results,
                   recorded, stdout, exit_code, pc, raised, completed, recomputed, qp,
                   windows>>

CurrentMetrics ==
    /\ pc = "current_metrics"
    /\ current_metrics' =
           calculate_portfolio_metrics(returns, covariance_matrix, current_weights)
    /\ Complete("current_metrics", "backtest")
    /\ UNCHANGED <<env, method, use_real_data, stocks, total_investment, target_risk,
                   use_real_data_from_request, constraints, returns, covariance_matrix,
                   data_source, n, risk_factor, weights, solver_path, produced_by,
                   method_name, allocations, metrics, current_weights,
                   optimization_reason, recommendation_reasons, efficient_frontier,
                   period_index, backtest_status, backtest_results, recorded, stdout,
                   exit_code, rng, recomputed, qp, windows>>

\* backtest_results = [] when use_real_data is false
SkipBacktest ==
    /\ pc = "backtest"
    /\ ~use_real_data
    /\ Complete("backtest", "emit")
    /\ UNCHANGED <<env, method, use_real_data, stocks, total_investment, target_risk,
                   use_real_data_from_request, constraints, returns, covariance_matrix,
                   data_source, n, risk_factor, weights, solver_path, produced_by,
                   method_name, allocations, metrics, current_weights,
                   optimization_reason, recommendation_reasons, efficient_frontier,
                   current_metrics, period_index, backtest_status, backtest_results,
                   recorded, stdout, exit_code, rng, recomputed, qp, windows>>

\* The entry of backtest_optimization: the imports and the symbol list.
BacktestStart ==
    /\ pc = "backtest"
    /\ use_real_data
    /\ backtest_status = "idle"
    /\ backtest_results' = <<>>
    /\ IF backtest_setup = "ok"
       THEN /\ backtest_status' = "running"
            /\ period_index' = 1
            \* the day every datetime.now() of the call falls on
            /\ \E today \in Nows :
                  windows' = <<[today |-> today, training |-> <<>>, actual |-> <<>>]>>
            /\ UNCHANGED <<pc, raised, completed>>
       ELSE /\ backtest_status' = "returned"
            /\ UNCHANGED <<period_index, windows>>
            /\ Complete("backtest", "emit")
    /\ UNCHANGED <<env, method, use_real_data, stocks, total_investment, target_risk,
                   use_real_data_from_request, constraints, returns, covariance_matrix,
                   data_source, n, risk_factor, weights, solver_path, produced_by,
                   method_name, allocations, metrics, current_weights,
                   optimization_reason, recommendation_reasons, efficient_frontier,
                   current_metrics, recorded, stdout, exit_code, rng, recomputed, qp>>

\* Seeded fault: every pass of the period loop appends a record.
BacktestPeriodAlwaysRecords ==
    /\ pc = "backtest"
    /\ backtest_status = "running"
    /\ period_index <= Len(periods)
    /\ backtest_results' = Append(backtest_results, [period |-> periods[period_index]])
    /\ recorded' = recorded \cup {period_index}
    /\ period_index' = period_index + 1
    /\ UNCHANGED <<pc, env, method, use_real_data, stocks, total_investment,
                   target_risk, use_real_data_from_request, constraints, returns,
                   covariance_matrix, data_source, n, risk_factor, weights, solver_path,
                   produced_by, method_name, allocations, metrics, current_weights,
                   optimization_reason, recommendation_reasons, efficient_frontier,
                   current_metrics, backtest_status, stdout, exit_code, raised,
                   completed, rng, recomputed, qp, windows>>

\* Seeded fault: the period loop without its own handler, an exception of a
\* pass reaching the handler of the function, which returns [].
BacktestPeriodUnguarded ==
    /\ pc = "backtest"
    /\ backtest_status = "running"
    /\ period_index <= Len(periods)
    /\ IF PeriodOutcome(periods[period_index], fetches[period_index]) = "error"
       THEN /\ backtest_results' = <<>>
            /\ period_index' = Len(periods) + 1
            /\ UNCHANGED recorded
       ELSE /\ period_index' = period_index + 1
            /\ IF PeriodOutcome(periods[period_index], fetches[period_index]) = "record"
               THEN /\ backtest_results' =
                           Append(backtest_results,
                                  BacktestRecord(periods[period_index],
                                      Lookback(windows[1].today, periods[period_index]),
                                      Len(stocks),
                                      fetches[period_index].training_stats,
                                      fetches[period_index].actual_stats))
                    /\ recorded' = recorded \cup {period_index}
               ELSE UNCHANGED <<backtest_results, recorded>>
    /\ UNCHANGED <<pc, env, method, use_real_data, stocks, total_investment,
                   target_risk, use_real_data_from_request, constraints, returns,
                   covariance_matrix, data_source, n, risk_factor, weights, solver_path,
                   produced_by, method_name, allocations, metrics, current_weights,
                   optimization_reason, recommendation_reasons, efficient_frontier,
                   current_metrics, backtest_status, stdout, exit_code, raised,
                   completed, rng, recomputed, qp, windows>>

\* One pass of the period loop.
BacktestPeriod ==
    /\ pc = "backtest"
    /\ backtest_status = "running"
    /\ period_index <= Len(periods)
    /\ \E today \in {windows[1].today} :
          /\ IF PeriodOutcome(periods[period_index], fetches[period_index]) = "record"
             THEN /\ backtest_results' =
                         Append(backtest_results,
                                BacktestRecord(periods[period_index],
                                               Lookback(today, periods[period_index]),
                                               Len(stocks),
                                               fetches[period_index].training_stats,
                                               fetches[period_index].actual_stats))
                  /\ recorded' = recorded \cup {period_index}
             ELSE UNCHANGED <<backtest_results, recorded>>
          /\ windows' =
                IF ParsePeriod(periods[period_index]).kind \in {"months", "years"}
                THEN LET asked == DownloadWindows(today,
                                      Lookback(today, periods[period_index]))
                     IN  <<[today |-> today,
                            training |-> <<asked.training>>,
                            actual |-> IF fetches[period_index].training = "table"
                                       THEN <<asked.actual>> ELSE <<>>]>>
                ELSE <<[today |-> today, training |-> <<>>, actual |-> <<>>]>>
    /\ period_index' = period_index + 1
    /\ UNCHANGED <<pc, env, method, use_real_data, stocks, total_investment,
                   target_risk, use_real_data_from_request, constraints, returns,
                   covariance_matrix, data_source, n, risk_factor, weights, solver_path,
                   produced_by, method_name, allocations, metrics, current_weights,
                   optimization_reason, recommendation_reasons, efficient_frontier,
                   current_metrics, backtest_status, stdout, exit_code, raised,
                   completed, rng, recomputed, qp>>

\* return backtest_results
BacktestReturn ==
    /\ pc = "backtest"
    /\ backtest_status = "running"
    /\ period_index > Len(periods)
    /\ backtest_status' = "returned"
    /\ Complete("backtest", "emit")
    /\ UNCHANGED <<env, method, use_real_data, stocks, total_investment, target_risk,
                   use_real_data_from_request, constraints, returns, covariance_matrix,
                   data_source, n, risk_factor, weights, solver_path, produced_by,
                   method_name, allocations, metrics, current_weights,
                   optimization_reason, recommendation_reasons, efficient_frontier,
                   current_metrics, period_index, backtest_results, recorded, stdout,
                   exit_code, rng, recomputed, qp, windows>>

\* The result dict main builds.
Result ==
    SuccessEnvelope(allocations, metrics, optimization_reason, recommendation_reasons,
                    argv[3], efficient_frontier, current_metrics, backtest_results,
                    method_name, stocks, total_investment)

\* Seeded fault: the result is printed before the step that can raise.
EmitThenRaise ==
    /\ pc = "emit"
    /\ stdout' = Append(stdout, Result)
    /\ IF fault = "emit"
       THEN /\ Raise("emit")
            /\ UNCHANGED exit_code
       ELSE /\ exit_code' = <<0>>
            /\ Complete("emit", "done")
    /\ UNCHANGED <<env, method, use_real_data, stocks, total_investment, target_risk,
                   use_real_data_from_request, constraints, returns, covariance_matrix,
                   data_source, n, risk_factor, weights, solver_path, produced_by,
                   method_name, allocations, metrics, current_weights,
                   optimization_reason, recommendation_reasons, efficient_frontier,
                   current_metrics, period_index, backtest_status, backtest_results,
                   recorded, rng, recomputed, qp, windows>>

\* print(json.dumps(result))
Emit ==
    /\ pc = "emit"
    /\ IF fault = "emit"
       THEN /\ Raise("emit")
            /\ UNCHANGED <<stdout, exit_code>>
       ELSE /\ stdout' = Append(stdout, Result)
            /\ exit_code' = <<0>>
            /\ Complete("emit", "done")
    /\ UNCHANGED <<env, method, use_real_data, stocks, total_investment, target_risk,
                   use_real_data_from_request, constraints, returns, covariance_matrix,
                   data_source, n, risk_factor, weights, solver_path, produced_by,
                   method_name, allocations, metrics, current_weights,
                   optimization_reason, recommendation_reasons, efficient_frontier,
                   current_metrics, period_index, backtest_status, backtest_results,
                   recorded, rng, recomputed, qp, windows>>

\* str(e) of the exception a stage raised
ErrorMessage(stage) == "error in " \o stage

\* The except clause of main.
Except ==
    /\ pc = "except"
    /\ stdout' = Append(stdout, ErrorEnvelope(ErrorMessage(raised)))
    /\ exit_code' = <<1>>
    /\ pc' = "done"
    /\ UNCHANGED <<env, method, use_real_data, stocks, total_investment, target_risk,
                   use_real_data_from_request, constraints, returns, covariance_matrix,
                   data_source, n, risk_factor, weights, solver_path, produced_by,
                   method_name, allocations, metrics, current_weights,
                   optimization_reason, recommendation_reasons, efficient_frontier,
                   current_metrics, period_index, backtest_status, backtest_results,
                   recorded, raised, completed, rng, recomputed, qp, windows>>

----------------------------------------------------------------------------
(* Specifications                                                          *)

\* What the world does during the run.
World(av, a, rq, mk, f, res, run, k, drw, bs, ps, ft) ==
    /\ QUANTUM_AVAILABLE = av
    /\ argv = a
    /\ request = rq
    /\ market = mk
    /\ fault = f
    /\ minimize_result = res
    /\ quantum_run = run
    /\ num_portfolios = k
    /\ draws = drw
    /\ backtest_setup = bs
    /\ periods = ps
    /\ fetches = ft

\* The command line and the request as main has parsed them.
RequestIs(meth, s, c) ==
    /\ method = meth
    /\ use_real_data = TRUE
    /\ stocks = s
    /\ total_investment = 10000
    /\ target_risk = 5
    /\ use_real_data_from_request = TRUE
    /\ constraints = c

\* The statistics fetched and the problem built from them.
ProblemIs(st, rf) ==
    /\ returns = st.returns
    /\ covariance_matrix = st.covariance_matrix
    /\ data_source = "real"
    /\ n = Len(st.returns)
    /\ risk_factor = rf

SolveUnset ==
    /\ weights = <<>>
    /\ solver_path = ""
    /\ produced_by = ""
    /\ method_name = ""

\* Nothing computed after the solver call, nothing printed.
NothingComputed ==
    /\ allocations = <<>>
    /\ metrics = <<>>
    /\ current_weights = <<>>
    /\ optimization_reason = ""
    /\ recommendation_reasons = <<>>
    /\ efficient_frontier = <<>>
    /\ current_metrics = <<>>
    /\ period_index = 0
    /\ backtest_status = "idle"
    /\ backtest_results = <<>>
    /\ recorded = {}
    /\ stdout = <<>>
    /\ exit_code = <<>>
    /\ raised = ""
    /\ qp = <<>>
    /\ windows = <<>>
    /\ rng = [seed |-> "entropy", drawn |-> 0]
    /\ recomputed = <<>>

\* The state in which main calls a solver.
SolveSetup(meth, av, st, rf, c, res, run) ==
    /\ pc = "solve"
    /\ World(av, SomeArgv, <<SomeRequest(Len(st.returns))>>, SomeMarket(Len(st.returns)),
             "none", res, run, 0, <<>>, "ok", <<>>, <<>>)
    /\ RequestIs(meth, SomeStocks(Len(st.returns)), c)
    /\ ProblemIs(st, rf)
    /\ SolveUnset
    /\ NothingComputed
    /\ completed = {"load", "fetch", "build"}

\* The solver calls of the model.  Where the model's result cannot depend
\* on the statistics (the optimizer's and the quantum backend's answers are
\* inputs of the model), one pair of statistics stands for all.
InitSolve ==
    \/ \E m \in 1..MaxAssets :
        \* the analytic solver
        \/ \E st \in Statistics(m), rf \in {Rat(-5, 10), RZero, Rat(5, 10)} :
              SolveSetup("MPT", TRUE, st, rf, NoConstraints, NoResult, NoRun)
        \* the constrained solver
        \/ \E st \in SomeStatistics(m), c \in ConstraintSets(m) :
              \E res \in MinimizeResults(m, c) :
                 SolveSetup("MPT", TRUE, st, Rat(5, 10), c, res, NoRun)
        \* the constrained solver on bounds one of which is None
        \/ \E st \in SomeStatistics(m), i \in 1..m, side \in {"min", "max"} :
              SolveSetup("MPT", TRUE, st, Rat(5, 10),
                         [present |-> TRUE,
                          min_weights |-> [j \in 1..m |->
                              IF j = i /\ side = "min" THEN <<>> ELSE RZero],
                          max_weights |-> [j \in 1..m |->
                              IF j = i /\ side = "max" THEN <<>> ELSE ROne]],
                         NoResult, NoRun)
        \* a quantum solver without the toolchain
        \/ \E meth \in {"QAOA", "VQE"}, st \in Statistics(m) :
              SolveSetup(meth, FALSE, st, Rat(5, 10), NoConstraints, NoResult, NoRun)
        \* a quantum solver with a step that raises
        \/ \E meth \in {"QAOA", "VQE"}, st \in Statistics(m) :
              \E run \in RaisingRuns :
                 SolveSetup(meth, TRUE, st, Rat(5, 10), NoConstraints, NoResult, run)
        \* a quantum solver that returns a result
        \/ \E meth \in {"QAOA", "VQE"}, st \in SomeStatistics(m) :
              \E run \in ReturningRuns(meth, m) :
                 SolveSetup(meth, TRUE, st, Rat(5, 10), NoConstraints, NoResult, run)
        \* a quantum solver asked for with lower bounds in the request
        \/ \E meth \in {"QAOA", "VQE"}, st \in SomeStatistics(m) :
              \E c \in {b \in ConstraintSets(m) : \A i \in 1..m : b.max_weights[i] = ROne},
                 how \in {"unavailable", "raises", "returns"} :
                 SolveSetup(meth, how # "unavailable", st, Rat(5, 10), c, NoResult,
                            IF how = "unavailable" THEN NoRun
                            ELSE IF how = "raises"
                            THEN [raised_at |-> "solve", variables_dict |-> <<>>]
                            ELSE [raised_at |-> "none",
                                  variables_dict |->
                                      [v \in IF meth = "QAOA" THEN QaoaVars(m)
                                                              ELSE VqeVars(m) |->
                                          IF v[1] = 1 THEN 1 ELSE 0]])
    \* the analytic solver on three uncorrelated assets, the asset of the
    \* lowest return being the one of the lowest variance
    \/ \E rf \in {RZero, Rat(5, 10), ROne} :
          SolveSetup("MPT", TRUE,
                     [returns |-> <<Rat(8, 100), Rat(12, 100), Rat(5, 100)>>,
                      covariance_matrix |-> <<<<Rat(4, 100), RZero, RZero>>,
                                              <<RZero, Rat(9, 100), RZero>>,
                                              <<RZero, RZero, Rat(1, 100)>>>>],
                     rf, NoConstraints, NoResult, NoRun)

SolveSpec == InitSolve /\ [][Solve]_vars

\* calculate_portfolio_metrics on every weight vector and every symmetric
\* matrix of the input sets, positive semidefinite or not.
InitMetrics ==
    \E m \in 1..MaxAssets :
        \E r \in [1..m -> ReturnValues], c \in SymmetricMatrices(m), w \in GridVectors(m) :
            /\ pc = "solved"
            /\ World(TRUE, SomeArgv, <<SomeRequest(m)>>, SomeMarket(m), "none", NoResult,
                     NoRun, 0, <<>>, "ok", <<>>, <<>>)
            /\ RequestIs("MPT", SomeStocks(m), NoConstraints)
            /\ ProblemIs([returns |-> r, covariance_matrix |-> c], Rat(5, 10))
            /\ weights = w
            /\ solver_path = "analytic"
            /\ produced_by = "MPT"
            /\ method_name = MethodName("MPT")
            /\ NothingComputed
            /\ completed = {"load", "fetch", "build", "solve"}

MetricsSpec == InitMetrics /\ [][Analyse]_vars

\* generate_efficient_frontier on up to NumPortfolios draws.
InitFrontier ==
    \E m \in 1..MaxAssets, k \in 0..NumPortfolios :
        \E st \in FrontierStatistics(m), drw \in [1..k -> DrawVectors(m)] :
            /\ pc = "frontier"
            /\ World(TRUE, SomeArgv, <<SomeRequest(m)>>, SomeMarket(m), "none", NoResult,
                     NoRun, k, drw, "ok", <<>>, <<>>)
            /\ RequestIs("MPT", SomeStocks(m), NoConstraints)
            /\ ProblemIs(st, Rat(5, 10))
            /\ weights = EqualWeights(m)
            /\ solver_path = "analytic"
            /\ produced_by = "MPT"
            /\ method_name = MethodName("MPT")
            /\ NothingComputed
            /\ completed = {"load", "fetch", "build", "solve"}

FrontierSpec == InitFrontier /\ [][Frontier \/ OtherRandomUse \/ Recompute]_vars

\* The state in which backtest_optimization is entered.
BacktestSetup(m, bs, ps, ft) ==
    /\ pc = "backtest"
    /\ World(TRUE, SomeArgv, <<SomeRequest(m)>>, SomeMarket(m), "none", NoResult,
             NoRun, 0, <<>>, bs, ps, ft)
    /\ RequestIs("MPT", SomeStocks(m), NoConstraints)
    /\ ProblemIs(CHOOSE st \in SomeStatistics(m) : TRUE, Rat(5, 10))
    /\ weights = EqualWeights(m)
    /\ solver_path = "analytic"
    /\ produced_by = "MPT"
    /\ method_name = MethodName("MPT")
    /\ NothingComputed
    /\ completed = Stages \ {"backtest", "emit"}

\* backtest_optimization on up to MaxPeriods periods.
InitBacktest ==
    \E m \in {1, MaxAssets} :
        \/ \E len \in 0..MaxPeriods :
              \E entries \in [1..len -> PeriodEntries(m)] :
                  BacktestSetup(m, "ok", [i \in 1..len |-> entries[i][1]],
                                [i \in 1..len |-> entries[i][2]])
        \/ \E bs \in BacktestSetups \ {"ok"}, e \in PeriodEntries(m) :
              BacktestSetup(m, bs, <<e[1]>>, <<e[2]>>)

BacktestSpec ==
    InitBacktest /\ [][BacktestStart \/ BacktestPeriod \/ BacktestReturn]_vars

\* The state in which the process starts.
MainSetup(av, a, rq, mk, f, res, run, bs, ft) ==
    /\ pc = "start"
    /\ World(av, a, rq, mk, f, res, run, NumPortfolios,
             [p \in 1..NumPortfolios |->
                 [i \in 1..(IF rq = <<>> THEN 0 ELSE Len(rq[1].stocks)) |->
                     Rat(((p + i) % (Grid - 1)) + 1, Grid)]],
             bs, MainPeriods, ft)
    /\ method = ""
    /\ use_real_data = FALSE
    /\ stocks = <<>>
    /\ total_investment = 0
    /\ target_risk = 0
    /\ use_real_data_from_request = FALSE
    /\ constraints = NoConstraints
    /\ returns = <<>>
    /\ covariance_matrix = <<>>
    /\ data_source = ""
    /\ n = 0
    /\ risk_factor = RZero
    /\ SolveUnset
    /\ NothingComputed
    /\ completed = {}

\* The three periods of main's backtest call, every download a table.
SomeFetches == [i \in 1..Len(MainPeriods) |-> SomeFetch(MaxAssets)]

\* The quantum runs of the requests: a step raises, or the backend sets
\* every variable, or none.
MainRuns(meth) ==
    IF meth \in {"qaoa", "VQE"}
    THEN {[raised_at |-> "solve", variables_dict |-> <<>>],
          [raised_at |-> "none",
           variables_dict |-> [v \in IF meth = "qaoa" THEN QaoaVars(MaxAssets)
                                     ELSE VqeVars(MaxAssets) |-> 1]],
          [raised_at |-> "none",
           variables_dict |-> [v \in IF meth = "qaoa" THEN QaoaVars(MaxAssets)
                                     ELSE VqeVars(MaxAssets) |-> 0]]}
    ELSE {NoRun}

Init ==
    \* the command lines
    \/ \E a \in Argvs, av \in BOOLEAN :
          \E run \in MainRuns(IF Len(a) > 3 THEN a[4] ELSE "mpt") :
             MainSetup(av, a, <<SomeRequest(MaxAssets)>>, SomeMarket(MaxAssets), "none",
                       NoResult, run, "ok", SomeFetches)
    \* the requests
    \/ \E rq \in Requests(MaxAssets) \cup Requests(0), u \in {"True", "false"} :
          \E mk \in Markets(Len(rq.stocks)),
             res \in IF rq.constraints = <<>> THEN {NoResult}
                     ELSE MinimizeResults(Len(rq.stocks), ParseConstraints(rq)) :
             MainSetup(TRUE, SomeArgv \o <<"mpt", u>>, <<rq>>, mk, "none", res, NoRun,
                       "ok", SomeFetches)
    \* an input file that cannot be read
    \/ MainSetup(TRUE, SomeArgv, <<>>, SomeMarket(MaxAssets), "none", NoResult, NoRun,
                 "ok", SomeFetches)
    \* the runtime raises in a stage
    \/ \E f \in {"analyse", "reasons", "frontier", "emit"}, m \in {"mpt", "qaoa", "VQE"}, av \in BOOLEAN :
          \E run \in MainRuns(m) :
             MainSetup(av, SomeArgv \o <<m>>, <<SomeRequest(MaxAssets)>>,
                       SomeMarket(MaxAssets), f, NoResult, run, "ok", SomeFetches)
    \* the backtest of a request
    \/ \E ft \in {SomeFetches,
                  [i \in 1..Len(MainPeriods) |-> EmptyFetch(MaxAssets)],
                  [i \in 1..Len(MainPeriods) |->
                      IF i = 1 THEN EmptyFetch(MaxAssets) ELSE SomeFetch(MaxAssets)]},
          bs \in BacktestSetups, u \in {"True", "false"} :
          MainSetup(TRUE, SomeArgv \o <<"mpt", u>>, <<SomeRequest(MaxAssets)>>,
                    SomeMarket(MaxAssets), "none", NoResult, NoRun, bs, ft)
    \* the requests for a single stock
    \/ \E r \in ReturnValues \cup {RZero}, v \in {RZero, Rat(1, 100), Rat(4, 100)} :
          MainSetup(TRUE, SomeArgv, <<SomeRequest(1)>>,
                    [real |-> "ok",
                     real_stats |-> [returns |-> <<r>>, covariance_matrix |-> <<<<v>>>>],
                     simulated |-> <<>>],
                    "none", NoResult, NoRun, "ok",
                    [i \in 1..Len(MainPeriods) |-> SomeFetch(1)])

Next ==
    \/ Start
    \/ Load
    \/ Fetch
    \/ Build
    \/ Solve
    \/ Analyse
    \/ CurrentWeightsStep
    \/ Reasons
    \/ Frontier
    \/ CurrentMetrics
    \/ SkipBacktest
    \/ BacktestStart
    \/ BacktestPeriod
    \/ BacktestReturn
    \/ Emit
    \/ Except

Spec == Init /\ [][Next]_vars

----------------------------------------------------------------------------
(* Properties                                                              *)

\* C1: for every valid input and every method, fallback paths included, the
\* weight vector handed back to main has one entry per asset, every entry
\* is non-negative and the entries sum to 1.0 within 1e-6.
C1_WeightsNonNegativeSumToOne ==
    pc = "solved" =>
        /\ Len(weights) = n
        /\ \A i \in 1..n : RGe(weights[i], RZero)
        /\ RLe(Rat(-1, 1000000), RSub(VSum(weights), ROne))
        /\ RLe(RSub(VSum(weights), ROne), Rat(1, 1000000))

\* The analytic solver returned after clamping the weight of an asset with
\* a negative return to zero.
C1_Witness ==
    /\ pc = "solved"
    /\ solver_path = "analytic"
    /\ n = MaxAssets
    /\ \E i \in 1..n : RLt(returns[i], RZero) /\ weights[i] = RZero
    /\ \E i \in 1..n : RGt(weights[i], RZero)

\* C2: with QUANTUM_AVAILABLE false, optimize_with_qaoa and
\* optimize_with_vqe return exactly the weights the unconstrained
\* optimize_with_modern_portfolio_theory returns for the same n, returns,
\* covariance and risk factor.
C2_UnavailableRoutesToClassical ==
    (pc = "solved" /\ ~QUANTUM_AVAILABLE /\ method \in {"QAOA", "VQE"}) =>
        weights = optimize_with_modern_portfolio_theory(n, returns, covariance_matrix,
                      risk_factor, NoConstraints, NoResult).weights

\* QAOA without the toolchain returned unequal analytic weights.
C2_Witness ==
    /\ pc = "solved"
    /\ ~QUANTUM_AVAILABLE
    /\ method = "QAOA"
    /\ solver_path = "analytic"
    /\ n = MaxAssets
    /\ weights[1] # weights[2]

\* C3: with the toolchain available, when a step of the quantum solve
\* (construction, conversion, execution, decoding) raises, no exception
\* reaches the caller and the weights returned are those of the
\* unconstrained classical solver for the same inputs.
C3_QuantumFailureRoutesToClassical ==
    (QUANTUM_AVAILABLE /\ method \in {"QAOA", "VQE"} /\ quantum_run.raised_at # "none") =>
        /\ pc # "except"
        /\ raised = ""
        /\ pc = "solved" =>
              /\ produced_by = "MPT"
              /\ weights = optimize_with_modern_portfolio_theory(n, returns,
                               covariance_matrix, risk_factor, NoConstraints,
                               NoResult).weights

\* VQE returned analytic weights after its decoding step raised.
C3_Witness ==
    /\ pc = "solved"
    /\ QUANTUM_AVAILABLE
    /\ method = "VQE"
    /\ quantum_run.raised_at = "decode"
    /\ solver_path = "analytic"
    /\ weights # EqualWeights(n)

\* C4: in every success envelope additionalMetrics.optimizationMethod names
\* the solver whose code produced the weights; a QAOA or VQE request served
\* by the classical fallback is reported as the classical method.
C4_ReportedMethodIsProducer ==
    \A i \in 1..Len(stdout) :
        "error" \notin DOMAIN stdout[i] =>
            stdout[i].additionalMetrics.optimizationMethod = MethodName(produced_by)

\* C5: for a feasible bound set, every weight vector the constrained mode
\* returns lies within [min_i, max_i] for every asset, on every return path.
C5_ConstrainedWeightsWithinBounds ==
    (/\ pc = "solved"
     /\ method = "MPT"
     /\ constraints.present
     /\ \A i \in 1..n : constraints.min_weights[i] # <<>> /\ constraints.max_weights[i] # <<>>)
    =>
        \A i \in 1..n :
            /\ RLe(constraints.min_weights[i], weights[i])
            /\ RLe(weights[i], constraints.max_weights[i])

\* C6: an exception that leaves a stage of main is caught at the request
\* boundary; the run then prints exactly one envelope, the error envelope
\* (error string, empty allocation, zero metrics, empty additionalMetrics,
\* no frontier and no backtest results), and exits with status 1.  A
\* success envelope is printed only when every stage ran to its end, it
\* carries the results of the stages, and no run prints two envelopes.
C6_AllOrNothingEnvelope ==
    /\ Len(stdout) <= 1
    /\ \A i \in 1..Len(stdout) :
          IF "error" \in DOMAIN stdout[i]
          THEN /\ raised # ""
               /\ exit_code = <<1>>
               /\ DOMAIN stdout[i] = {"error", "allocation", "expectedReturn",
                                      "expectedRisk", "sharpeRatio",
                                      "visualizationPath", "additionalMetrics"}
               /\ stdout[i].error = ErrorMessage(raised)
               /\ stdout[i].allocation = <<>>
               /\ stdout[i].expectedReturn = RZero
               /\ stdout[i].expectedRisk = RZero
               /\ stdout[i].sharpeRatio = RZero
               /\ stdout[i].additionalMetrics = <<>>
          ELSE /\ raised = ""
               /\ completed = Stages
               /\ exit_code = <<0>>
               /\ stdout[i].allocation = allocations
               /\ stdout[i].expectedReturn = metrics.expectedReturn
               /\ stdout[i].expectedRisk = metrics.expectedRisk
               /\ stdout[i].sharpeRatio = metrics.sharpeRatio
               /\ stdout[i].efficientFrontier = efficient_frontier
               /\ stdout[i].backtestResults = backtest_results
               /\ stdout[i].additionalMetrics.numberOfStocks = Len(stocks)
    /\ raised # "" => pc \in {"except", "done"}
    /\ (raised # "" /\ pc = "done") =>
          /\ Len(stdout) = 1
          /\ "error" \in DOMAIN stdout[1]
          /\ exit_code = <<1>>

\* The run ended with the error envelope after json.dumps raised, the
\* frontier and the backtest records already computed.
C6_Witness ==
    /\ pc = "done"
    /\ raised = "emit"
    /\ efficient_frontier # <<>>
    /\ backtest_results # <<>>
    /\ Len(stdout) = 1
    /\ "error" \in DOMAIN stdout[1]

\* C7: calculate_portfolio_metrics returns expectedRisk >= 0, never NaN,
\* for every weight vector and covariance matrix, a negative quadratic form
\* w'.Cov.w included.
C7_RiskNonNegativeNeverNaN ==
    pc = "current_weights" =>
        /\ ~IsNaN(metrics.expectedRisk)
        /\ RGe(metrics.expectedRisk, RZero)

\* C8: sharpeRatio is 0 whenever the portfolio risk is 0 and otherwise
\* (portfolio_return - 0.02) / portfolio_risk, rounded to three places.
C8_SharpeByCases ==
    pc = "current_weights" =>
        IF MetricsLocals(returns, covariance_matrix, weights).portfolio_risk = SZero
        THEN metrics.sharpeRatio = RZero
        ELSE metrics.sharpeRatio =
                 RoundSurd(DivBySurd(RSub(Dot(weights, returns), risk_free_rate),
                                     Sqrt(QuadForm(weights, covariance_matrix))), 1, 3)

C10_EmptyTrainingPeriodAbsent ==
    /\ raised = ""
    /\ pc # "except"
    /\ Len(backtest_results) = Cardinality(recorded)
    /\ \A i \in 1..Len(periods) :
          (/\ ParsePeriod(periods[i]).kind \in {"months", "years"}
           /\ fetches[i].training = "empty") => i \notin recorded
    /\ backtest_status = "returned" => pc = "emit"

\* backtest_optimization returned a record for one period and none for a
\* period whose training download was empty.
C10_Witness ==
    /\ backtest_status = "returned"
    /\ pc = "emit"
    /\ Len(backtest_results) >= 1
    /\ \E i \in 1..Len(periods) :
          /\ ParsePeriod(periods[i]).kind \in {"months", "years"}
          /\ fetches[i].training = "empty"
          /\ i \notin recorded

\* C11: when the covariance matrix handed to the unconstrained analytic
\* solver is singular, the solver fails with an error that reaches its
\* caller and returns no weight vector.
C11_SingularCovarianceSurfaced ==
    (/\ pc = "solved"
     /\ method = "MPT"
     /\ ~constraints.present
     /\ Det(covariance_matrix) = RZero) =>
        /\ weights = <<>>
        /\ raised = "solve"

\* C12: when the fetched price table is empty or has fewer than two
\* observations, computing the statistics fails with an error that halts
\* the request, and no statistics derived from such a table reach a solver.
C12_InsufficientDataHalts ==
    (/\ pc \notin {"start", "load", "fetch"}
     /\ use_real_data_from_request
     /\ market.real \in {"empty", "short"}) =>
        /\ raised = "fetch"
        /\ weights = <<>>

\* C13: for returns [0.08, 0.12, 0.05], covariance diag([0.04, 0.09, 0.01])
\* and risk factor 0.5 the unconstrained solver returns Cov^-1.returns
\* normalized and clamped, which is [0.24, 0.16, 0.60]: asset 3 (return
\* 0.05, variance 0.01) gets a strictly larger weight than asset 2 (return
\* 0.12, variance 0.09).
C13_ScenarioWeights ==
    (/\ pc = "solved"
     /\ method = "MPT"
     /\ ~constraints.present
     /\ returns = <<Rat(8, 100), Rat(12, 100), Rat(5, 100)>>
     /\ covariance_matrix = <<<<Rat(4, 100), RZero, RZero>>,
                              <<RZero, Rat(9, 100), RZero>>,
                              <<RZero, RZero, Rat(1, 100)>>>>
     /\ risk_factor = Rat(5, 10)) =>
        /\ weights = <<Rat(24, 100), Rat(16, 100), Rat(60, 100)>>
        /\ RGt(weights[3], weights[2])

\* The solver returned for the three assets at risk factor 0.5.
C13_Witness ==
    /\ pc = "solved"
    /\ solver_path = "analytic"
    /\ n = 3
    /\ returns = <<Rat(8, 100), Rat(12, 100), Rat(5, 100)>>
    /\ covariance_matrix[2][2] = Rat(9, 100)
    /\ risk_factor = Rat(5, 10)
    /\ RGt(weights[3], weights[2])

\* C13 as first stated: for the same inputs asset 2 (return 0.12) gets a
\* strictly larger weight than asset 3 (return 0.05).
C13_AssetTwoFavoured ==
    (/\ pc = "solved"
     /\ method = "MPT"
     /\ ~constraints.present
     /\ returns = <<Rat(8, 100), Rat(12, 100), Rat(5, 100)>>
     /\ covariance_matrix = <<<<Rat(4, 100), RZero, RZero>>,
                              <<RZero, Rat(9, 100), RZero>>,
                              <<RZero, RZero, Rat(1, 100)>>>>
     /\ risk_factor = Rat(5, 10)) =>
        RGt(weights[2], weights[3])

\* C14: for a request with a single asset, whatever the asset's return
\* (positive, zero or negative) and variance (positive or zero), the
\* unconstrained solver returns exactly [1.0], and the risk reported for it
\* is the square root of the single covariance entry: expectedRisk, a
\* percentage rounded to two places, is within 0.005 of 100 * sqrt(Cov[0][0]).
C14_SingleAssetWeightOne ==
    (Len(stocks) = 1 /\ ~constraints.present /\ raised = "") =>
        /\ weights # <<>> => weights = <<ROne>>
        /\ metrics # <<>> =>
              /\ RGe(metrics.expectedRisk, RZero)
              /\ \/ RLe(metrics.expectedRisk, Rat(1, 200))
                 \/ RLe(RMul(RSub(metrics.expectedRisk, Rat(1, 200)),
                             RSub(metrics.expectedRisk, Rat(1, 200))),
                        RMul(covariance_matrix[1][1], RInt(10000)))
              /\ RLe(RMul(covariance_matrix[1][1], RInt(10000)),
                     RMul(RAdd(metrics.expectedRisk, Rat(1, 200)),
                          RAdd(metrics.expectedRisk, Rat(1, 200))))

\* A single asset of return zero and variance 0.04 got weight 1.0 and the
\* run reported a risk of 20 percent.
C14_Witness ==
    /\ pc = "done"
    /\ Len(stocks) = 1
    /\ returns = <<RZero>>
    /\ covariance_matrix = <<<<Rat(4, 100)>>>>
    /\ weights = <<ROne>>
    /\ metrics.expectedRisk = RInt(20)
    /\ Len(stdout) = 1
    /\ stdout[1].allocation[1] = RInt(100)

\* C15: the risk factor given to every solver call made while serving a
\* request, the solve of main and the solve of every backtest period, is
\* targetRiskLevel / 10.0.
C15_RiskFactorFromDial ==
    /\ weights # <<>> => risk_factor = Rat(target_risk, 10)
    /\ recorded # {} => backtest_risk_factor = Rat(target_risk, 10)


C17_NonConvergenceFeasibleGuess ==
    (/\ pc \in {"solved", "except"}
     /\ method = "MPT"
     /\ constraints.present
     /\ \A i \in 1..n : constraints.min_weights[i] # <<>> /\ constraints.max_weights[i] # <<>>
     /\ ~minimize_result.raises
     /\ ~minimize_result.success) =>
        /\ pc = "solved"
        /\ raised = ""
        /\ solver_path = "initial_guess"
        /\ \A i \in 1..n :
              /\ weights[i] =
                    RDiv(RDiv(RAdd(constraints.min_weights[i], constraints.max_weights[i]),
                              RInt(2)),
                         VSum([j \in 1..n |->
                                  RDiv(RAdd(constraints.min_weights[j],
                                            constraints.max_weights[j]), RInt(2))] \o <<>>))
              /\ RLe(constraints.min_weights[i], weights[i])
              /\ RLe(weights[i], constraints.max_weights[i])


\* C18: when an exception other than non-convergence is raised during a
\* constrained solve, in the minimize call or ahead of it while the bounds
\* are read and the initial guess is built, the solver returns the
\* equal-weight vector 1/n and raises nothing to its caller.
C18_ConstrainedFailureEqualWeights ==
    (/\ pc \in {"solved", "except"}
     /\ method = "MPT"
     /\ constraints.present
     /\ \/ minimize_result.raises
        \/ \E i \in 1..n : constraints.min_weights[i] = <<>>
                           \/ constraints.max_weights[i] = <<>>) =>
        /\ pc = "solved"
        /\ raised = ""
        /\ Len(weights) = n
        /\ \A i \in 1..n : weights[i] = Rat(1, n)

\* C18 witness: a constrained solve of two assets whose first lower bound is
\* None has returned, and the weights are [1/2, 1/2].
C18_Witness ==
    /\ pc = "solved"
    /\ method = "MPT"
    /\ constraints.present
    /\ n = 2
    /\ constraints.min_weights[1] = <<>>
    /\ ~minimize_result.raises
    /\ weights = <<Rat(1, 2), Rat(1, 2)>>


\* C19: for every assignment of the n * 4 bits of the discretized-weight
\* encoding, the objective optimize_with_qaoa builds (its linear coefficients
\* summed over the set bits plus its quadratic coefficients summed over all
\* ordered pairs of set bits) equals the negation of return.w -
\* riskFactor * w'.Cov.w at the decoded un-normalized weights w_i, the sum of
\* the bit values of asset i's set bits.
C19_QuboIsNegatedObjective ==
    (/\ pc = "solved"
     /\ method = "QAOA"
     /\ solver_path = "decoded"
     /\ qp # <<>>) =>
        LET x == quantum_run.variables_dict
            var(k) == <<((k - 1) \div 4) + 1, (k - 1) % 4>>
            set(v) == v \in DOMAIN x /\ x[v] = 1
            linear == VSum([k \in 1..(4 * n) |->
                              IF set(var(k)) THEN qp[1].linear[var(k)] ELSE RZero] \o <<>>)
            quadratic ==
                VSum([k \in 1..(4 * n) |->
                        VSum([l \in 1..(4 * n) |->
                                IF set(var(k)) /\ set(var(l))
                                THEN qp[1].quadratic[<<var(k), var(l)>>]
                                ELSE RZero] \o <<>>)] \o <<>>)
            w == [i \in 1..n |->
                    VSum([b \in 1..4 |->
                            IF set(<<i, b - 1>>) THEN Rat(2 ^ (b - 1), 15) ELSE RZero]
                         \o <<>>)] \o <<>>
            return == VSum([i \in 1..n |-> RMul(returns[i], w[i])] \o <<>>)
            variance == VSum([i \in 1..n |->
                                VSum([j \in 1..n |->
                                        RMul(RMul(w[i], covariance_matrix[i][j]), w[j])]
                                     \o <<>>)] \o <<>>)
        IN  RAdd(linear, quadratic) = RSub(RZero, RSub(return, RMul(risk_factor, variance)))


\* C20: decoding of a quantum result.  In the discretized variant the raw
\* weight of asset i is level_i / 15, level_i in 0..15 being the integer its
\* 4 bits spell, and the result is raw / sum(raw), or 1/n for every asset
\* when all bits are 0.  In the selection variant every asset whose bit is
\* set gets 1 / |selected| and every other asset 0, or all get 1/n when no
\* bit is set.  A variable missing from the result is an unset bit.
C20_QuantumDecoding ==
    (/\ pc = "solved"
     /\ method \in {"QAOA", "VQE"}
     /\ QUANTUM_AVAILABLE
     /\ quantum_run.raised_at = "none") =>
        LET x == quantum_run.variables_dict
            bit(v) == IF v \in DOMAIN x /\ x[v] = 1 THEN 1 ELSE 0
            level(i) == bit(<<i, 0>>) + 2 * bit(<<i, 1>>) + 4 * bit(<<i, 2>>)
                        + 8 * bit(<<i, 3>>)
            levels[k \in 0..n] == IF k = 0 THEN 0 ELSE level(k) + levels[k - 1]
            selected == {i \in 1..n : bit(<<i>>) = 1}
        IN  /\ Len(weights) = n
            /\ produced_by = method
            /\ \A i \in 1..n :
                  weights[i] =
                     IF method = "QAOA"
                     THEN IF levels[n] = 0 THEN Rat(1, n)
                          ELSE RDiv(Rat(level(i), 15), Rat(levels[n], 15))
                     ELSE IF selected = {} THEN Rat(1, n)
                          ELSE IF i \in selected THEN Rat(1, Cardinality(selected))
                          ELSE RZero

\* C20 witness: a discretized result of two assets that lacks the variable
\* of one bit and spells two different non-zero levels has been decoded.
C20_Witness ==
    /\ pc = "solved"
    /\ method = "QAOA"
    /\ QUANTUM_AVAILABLE
    /\ quantum_run.raised_at = "none"
    /\ n = 2
    /\ Cardinality(DOMAIN quantum_run.variables_dict) = 7
    /\ RGt(weights[1], RZero)
    /\ RGt(weights[2], weights[1])


\* C21: in every backtest record the actual metrics are those of the weight
\* vector optimized on the training window of the period, computed on the
\* statistics of the actual window, the baseline metrics are those of the
\* equal weights 1/n on the same statistics, and outperformance is the
\* actual expected return minus the baseline expected return.
C21_FrozenWeightsAndBaseline ==
    \A k \in 1..Len(backtest_results) :
        LET i == CHOOSE j \in recorded : Cardinality({h \in recorded : h < j}) = k - 1
            m == Len(stocks)
            trained == optimize_with_modern_portfolio_theory(m,
                           fetches[i].training_stats.returns,
                           fetches[i].training_stats.covariance_matrix,
                           RInt(5), NoConstraints, NoResult).weights
            frozen == calculate_portfolio_metrics(fetches[i].actual_stats.returns,
                          fetches[i].actual_stats.covariance_matrix, trained)
            equal == calculate_portfolio_metrics(fetches[i].actual_stats.returns,
                         fetches[i].actual_stats.covariance_matrix,
                         [a \in 1..m |-> Rat(1, m)])
            record == backtest_results[k]
        IN  /\ record.period = periods[i]
            /\ record.predicted.return =
                   Round(calculate_portfolio_metrics(fetches[i].training_stats.returns,
                             fetches[i].training_stats.covariance_matrix,
                             trained).expectedReturn, 2)
            /\ record.actual.return = Round(frozen.expectedReturn, 2)
            /\ record.actual.risk = Round(frozen.expectedRisk, 2)
            /\ record.actual.sharpe = Round(frozen.sharpeRatio, 3)
            /\ record.baseline.return = Round(equal.expectedReturn, 2)
            /\ record.baseline.risk = Round(equal.expectedRisk, 2)
            /\ record.baseline.sharpe = Round(equal.sharpeRatio, 3)
            /\ record.outperformance =
                   Round(RSub(frozen.expectedReturn, equal.expectedReturn), 2)
            /\ record.outperformance = RSub(record.actual.return, record.baseline.return)

\* C21 witness: a record of two assets whose trained weights are not the
\* equal weights, whose actual and baseline figures differ and whose
\* outperformance is -0.5.
C21_Witness ==
    /\ backtest_status = "returned"
    /\ Len(stocks) = 2
    /\ Len(backtest_results) >= 1
    /\ backtest_results[1].actual.return = RInt(4)
    /\ backtest_results[1].baseline.return = Rat(45, 10)
    /\ backtest_results[1].outperformance = Rat(-5, 10)
    /\ backtest_results[1].actual.risk # backtest_results[1].baseline.risk


\* C22: for every backtest period the training download is asked for
\* [lookbackDate - 1 year, lookbackDate) and the evaluation download for
\* [lookbackDate, now), with lookbackDate = now - period, so no date lies in
\* both windows and the weights rest on data dated before lookbackDate.
C22_WindowsDisjoint ==
    (windows # <<>> /\ windows[1].training # <<>>) =>
        LET today == windows[1].today
            parsed == ParsePeriod(periods[period_index - 1])
            months == IF parsed.kind = "months" THEN parsed.count ELSE 12 * parsed.count
            leap(y) == y % 4 = 0 /\ (y % 100 # 0 \/ y % 400 = 0)
            days(y, m) == CASE m = 2 -> IF leap(y) THEN 29 ELSE 28
                            [] m \in {4, 6, 9, 11} -> 30
                            [] OTHER -> 31
            back(date, k) ==
                LET t == (12 * date[1] + date[2] - 1) - k
                IN  <<t \div 12, (t % 12) + 1,
                      IF date[3] > days(t \div 12, (t % 12) + 1)
                      THEN days(t \div 12, (t % 12) + 1) ELSE date[3]>>
            before(a, b) == \/ a[1] < b[1]
                            \/ a[1] = b[1] /\ a[2] < b[2]
                            \/ a[1] = b[1] /\ a[2] = b[2] /\ a[3] < b[3]
            lookbackDate == back(today, months)
            training == windows[1].training[1]
        IN  /\ training.start = back(lookbackDate, 12)
            /\ training.end = lookbackDate
            /\ before(training.start, training.end)
            /\ (period_index - 1) \in recorded =>
                   backtest_results[Len(backtest_results)].lookbackDate = lookbackDate
            /\ windows[1].actual # <<>> =>
                  /\ windows[1].actual[1].start = lookbackDate
                  /\ windows[1].actual[1].end = today
                  /\ ~(/\ before(training.start, windows[1].actual[1].end)
                       /\ before(windows[1].actual[1].start, training.end))

\* C22 witness: on 2024-05-31 the pass for '3mo' asked for the training
\* window 2023-02-28 to 2024-02-29 and the evaluation window 2024-02-29 to
\* 2024-05-31, and recorded the period.
C22_Witness ==
    /\ windows # <<>>
    /\ windows[1].today = <<2024, 5, 31>>
    /\ period_index > 1
    /\ periods[period_index - 1] = <<"3", "m", "o">>
    /\ windows[1].training = <<[start |-> <<2023, 2, 28>>, end |-> <<2024, 2, 29>>]>>
    /\ windows[1].actual = <<[start |-> <<2024, 2, 29>>, end |-> <<2024, 5, 31>>]>>
    /\ (period_index - 1) \in recorded


\* C23: whatever the periods asked for and whatever each of them meets (an
\* empty training table, an empty actual table, a period that does not
\* parse, an exception), the list backtest_optimization returns holds the
\* records of exactly the periods that ran to their end, one each, in the
\* order of the periods asked for; a period that is skipped or fails takes
\* away its own record only and the periods after it are still run.  If
\* the data provider cannot be loaded the list is empty.
C23_RecordsOfCompletedPeriodsInOrder ==
    backtest_status = "returned" =>
        LET ran == {i \in 1..Len(periods) :
                      /\ ParsePeriod(periods[i]).kind \in {"months", "years"}
                      /\ fetches[i].training = "table"
                      /\ fetches[i].actual = "table"}
            nth(k) == CHOOSE i \in ran : Cardinality({j \in ran : j < i}) = k - 1
        IN  /\ raised = ""
            /\ pc = "emit"
            /\ IF backtest_setup = "ok"
               THEN /\ period_index = Len(periods) + 1
                    /\ recorded = ran
                    /\ Len(backtest_results) = Cardinality(ran)
                    /\ \A k \in 1..Len(backtest_results) :
                          backtest_results[k].period = periods[nth(k)]
               ELSE backtest_results = <<>>

\* C23 witness: of three periods the second met an exception; the list
\* returned holds the records of the first and the third, in that order.
C23_Witness ==
    /\ backtest_status = "returned"
    /\ Len(periods) = 3
    /\ "raise" \in {fetches[2].training, fetches[2].actual}
    /\ recorded = {1, 3}
    /\ Len(backtest_results) = 2
    /\ backtest_results[1].period = periods[1]
    /\ backtest_results[2].period = periods[3]
    /\ periods[1] # periods[3]


\* C24: no component changes state shared across calls: every step of a
\* run, the call of generate_efficient_frontier and the call of the
\* synthetic statistics generator among them, leaves the process-wide random
\* generator as it found it.
C24_GeneratorStateUntouched == [][rng' = rng]_vars


\* C25: the weights optimize_with_modern_portfolio_theory returns do not
\* depend on the risk factor: for the same n, returns, covariance and
\* constraints (and the same answer of the optimizer) a positive, a zero and
\* a negative risk factor give the weight vector the call has given.
C25_WeightsIndependentOfRiskFactor ==
    (pc = "solved" /\ method = "MPT") =>
        \A other \in {Rat(-2, 1), Rat(-5, 10), RZero, Rat(1, 10), Rat(5, 10), ROne,
                       RInt(5)} :
            optimize_with_modern_portfolio_theory(n, returns, covariance_matrix, other,
                constraints, minimize_result).weights = weights

\* C25 witness: an unconstrained solve of two assets with a negative risk
\* factor has returned weights that are not the equal weights.
C25_Witness ==
    /\ pc = "solved"
    /\ method = "MPT"
    /\ ~constraints.present
    /\ n = 2
    /\ RLt(risk_factor, RZero)
    /\ solver_path = "analytic"
    /\ RGt(weights[1], weights[2])
    /\ RGt(weights[2], RZero)


\* C26: the per-asset constraints of the request reach a solver only when
\* the method is MPT.  Under QAOA or VQE no solver is given them, the
\* classical fallback included, so the weights are those of the request
\* without constraints and can lie outside the bounds asked for.
C26_ConstraintsOnlyReachMPT ==
    (pc = "solved" /\ method \in {"QAOA", "VQE"}) =>
        weights =
            IF QUANTUM_AVAILABLE /\ quantum_run.raised_at = "none"
            THEN IF method = "QAOA" THEN QaoaDecode(n, quantum_run.variables_dict)
                 ELSE VqeDecode(n, quantum_run.variables_dict)
            ELSE optimize_with_modern_portfolio_theory(n, returns, covariance_matrix,
                     risk_factor, NoConstraints, NoResult).weights

\* C26 witness: a QAOA request of two assets with lower bounds was served
\* by the classical fallback, and the first weight is below its lower bound.
C26_Witness ==
    /\ pc = "solved"
    /\ method = "QAOA"
    /\ ~QUANTUM_AVAILABLE
    /\ constraints.present
    /\ n = 2
    /\ produced_by = "MPT"
    /\ RLt(weights[1], constraints.min_weights[1])


\* C27: the backtest harness runs exactly when the statistics of the request
\* were asked to come from real data: backtest_optimization is called when
\* the effective useRealData (the field of the request, the command-line
\* flag where the request has none) is true, and when it is false the
\* harness is not called and backtestResults is the empty list.
C27_BacktestFollowsEffectiveFlag ==
    (pc \in {"emit", "done"} /\ raised = "" /\ "backtest" \in completed) =>
        /\ (backtest_status # "idle") <=> use_real_data_from_request
        /\ ~use_real_data_from_request => backtest_results = <<>>
        /\ \A i \in 1..Len(stdout) :
              ~use_real_data_from_request => stdout[i].backtestResults = <<>>

====
